---- MODULE Spec2Model ----
(***************************************************************************)
(* A model of the research-paper parser: the font-size-nested section      *)
(* builder (section.py, journals/orgsci.py, journals/annurev.py,           *)
(* journals/personnel.py), the reference splitter, the citation processor  *)
(* and matcher, the flat (font,size)-keyed builder and the conversion      *)
(* pipeline of each journal profile.                                       *)
(*                                                                         *)
(* Text is a sequence of atoms.  An atom is a piece of text that none of   *)
(* the modelled string operations cuts: a word, a punctuation mark, a      *)
(* blank " " or a line break "\n".  Python's str operations (strip, split, *)
(* in, replace, find, slicing) are modelled on these sequences.            *)
(* Font sizes are integers in thousandths of a point.                      *)
(***************************************************************************)
EXTENDS Integers, Sequences, FiniteSets, TLC

\* ------------------------------------------------------------------- state

\* The nested builder (get_sections of orgsci.py, annurev.py, personnel.py):
\* the profile, the Section objects (nodes[1] is main_section), the current
\* section, prev_size, the number of runs read, the state of the call, the list
\* it returned, and the sections the override branch created.
VARIABLES journal, nodes, curr_section, prev_size, nruns, tstatus, sections,
          overridden

\* The reference splitter (text_preprocess_for_reference_matching): its
\* argument, the list it returned and the state of the call.
VARIABLES bibtext, references_clean, sstatus

\* The reference index (the loop of make_references_dataframe): the profile,
\* the entries of the bibliography, the dict references_dictionary, the number
\* of sections read, the state of the call and the table it returned; rows
\* holds the rows of sections_df, passed every (location, authors, year) handed
\* to find_citation_matches, and last describes the latest iteration of the
\* loop. run counts the calls of make_references_dataframe on the document and
\* first_df keeps the table the first call returned.
VARIABLES mjournal, rows, references_list, references_dictionary, nsections,
          mstatus, references_df, passed, last, run, first_df

\* The flat builder (get_sections of asq.py and joap.py): the profile, the
\* number of fragments read, the run sequence seqs, the side index fonts (a
\* dict, as the list of its items in insertion order), the size and font of the
\* previous fragment, the detected headers, the sections mapping and the state
\* of the call. doc holds the fragments of the document in the order they were
\* read, frun counts the calls of get_sections on the document, and first_seqs
\* and first_fonts keep what the tokenizer returned in the first call.
VARIABLES fjournal, nfragments, seqs, fonts, fprev, pdf_headers, text_nest,
          fstatus, doc, frun, first_seqs, first_fonts

\* The post-processing pass (preprocess_sections of orgsci.py and annurev.py):
\* the profile, the list handed to the call as the call leaves it, that list
\* as it was handed over, the list the call returned and the state of the call.
VARIABLES pjournal, psections, pinput, presult, pstatus

treeVars == <<journal, nodes, curr_section, prev_size, nruns, tstatus, sections,
              overridden>>

splitVars == <<bibtext, references_clean, sstatus>>

matchVars == <<mjournal, rows, references_list, references_dictionary,
               nsections, mstatus, references_df, passed, last, run, first_df>>

flatVars == <<fjournal, nfragments, seqs, fonts, fprev, pdf_headers, text_nest,
              fstatus, doc, frun, first_seqs, first_fonts>>

\* Section.__eq__: the section, what it is compared with, the answer and the
\* state of the call.
VARIABLES eq_self, eq_other, eq_result, estatus

\* The upload front end (app.py): the journal selected, the uploaded file,
\* st.session_state["convert_clicked"] and st.session_state.convert_success,
\* what the last run of the script showed, the state of the script, whether
\* Convert was clicked after the last change of journal or file, and the
\* number of times the script has run again.
VARIABLES ajournal, pdf_file, convert_clicked, convert_success, shown, astatus,
          clicked_after_change, nscript

postVars == <<pjournal, psections, pinput, presult, pstatus>>

eqVars == <<eq_self, eq_other, eq_result, estatus>>

appVars == <<ajournal, pdf_file, convert_clicked, convert_success, shown,
             astatus, clicked_after_change, nscript>>

vars == <<treeVars, splitVars, matchVars, flatVars, postVars, eqVars, appVars>>

notTree == <<splitVars, matchVars, flatVars, postVars, eqVars, appVars>>

notSplit == <<treeVars, matchVars, flatVars, postVars, eqVars, appVars>>

notMatch == <<treeVars, splitVars, flatVars, postVars, eqVars, appVars>>

notFlat == <<treeVars, splitVars, matchVars, postVars, eqVars, appVars>>

notPost == <<treeVars, splitVars, matchVars, flatVars, eqVars, appVars>>

notEq == <<treeVars, splitVars, matchVars, flatVars, postVars, appVars>>

notApp == <<treeVars, splitVars, matchVars, flatVars, postVars, eqVars>>

\* ------------------------------------------------------------------ bounds

MaxRuns == 5

\* ------------------------------------------------------------ text helpers

IsSpace(a) == a \in {" ", "\n"}

Last(s) == s[Len(s)]

RECURSIVE LStrip(_)
LStrip(s) ==
    IF s = <<>> THEN <<>>
    ELSE IF IsSpace(Head(s)) THEN LStrip(Tail(s)) ELSE s

RECURSIVE RStrip(_)
RStrip(s) ==
    IF s = <<>> THEN <<>>
    ELSE IF IsSpace(Last(s)) THEN RStrip(SubSeq(s, 1, Len(s) - 1)) ELSE s

\* str.strip()
Strip(s) == LStrip(RStrip(s))

\* str.lower(), on the atoms the model uses
LowerAtom(a) ==
    CASE a = "References" -> "references"
      [] a = "REFERENCES" -> "references"
      [] a = "Keywords" -> "keywords"
      [] OTHER -> a

Lower(s) == [i \in 1..Len(s) |-> LowerAtom(s[i])]

\* round(size, 1) and round(size, 2) on thousandths of a point
Round1(x) == ((x + 50) \div 100) * 100

Round2(x) == ((x + 5) \div 10) * 10

\* All sequences over S of length at most n.
BoundedSeq(S, n) == UNION {[1..k -> S] : k \in 0..n}

Range(s) == {s[k] : k \in 1..Len(s)}

\* The 1-based positions at which sub occurs in s.
Occurrences(s, sub) ==
    {p \in 1..(Len(s) - Len(sub) + 1) : SubSeq(s, p, p + Len(sub) - 1) = sub}

\* sub in s
Contains(s, sub) == Occurrences(s, sub) # {}

Min(S) == CHOOSE x \in S : \A y \in S : x <= y

\* s.find(sub): the 0-based index of the first occurrence, -1 when there is none
PyFind(s, sub) ==
    IF Occurrences(s, sub) = {} THEN -1 ELSE Min(Occurrences(s, sub)) - 1

\* A slice bound as Python normalises it: a negative index counts from the end.
PyIndex(s, i) ==
    IF i < 0 THEN (IF Len(s) + i < 0 THEN 0 ELSE Len(s) + i)
    ELSE IF i > Len(s) THEN Len(s) ELSE i

\* s[a:b]
PySlice(s, a, b) == SubSeq(s, PyIndex(s, a) + 1, PyIndex(s, b))

\* s[a:]
PySliceFrom(s, a) == SubSeq(s, PyIndex(s, a) + 1, Len(s))

s_startswith(s, pre) == Len(s) >= Len(pre) /\ SubSeq(s, 1, Len(pre)) = pre

s_endswith(s, suf) ==
    Len(s) >= Len(suf) /\ SubSeq(s, Len(s) - Len(suf) + 1, Len(s)) = suf

\* s.split(sep), sep not empty
RECURSIVE Split(_, _)
Split(s, sep) ==
    IF Occurrences(s, sep) = {} THEN <<s>>
    ELSE LET p == Min(Occurrences(s, sep)) IN
         <<SubSeq(s, 1, p - 1)>> \o Split(SubSeq(s, p + Len(sep), Len(s)), sep)

\* The first whitespace-delimited word of s, s not starting with whitespace.
RECURSIVE FirstWord(_)
FirstWord(s) ==
    IF s = <<>> \/ IsSpace(Head(s)) THEN <<>>
    ELSE <<Head(s)>> \o FirstWord(Tail(s))

\* s.split()
RECURSIVE SplitWS(_)
SplitWS(s) ==
    IF LStrip(s) = <<>> THEN <<>>
    ELSE LET t == LStrip(s) IN
         <<FirstWord(t)>> \o SplitWS(SubSeq(t, Len(FirstWord(t)) + 1, Len(t)))

\* sep.join(parts)
RECURSIVE Join(_, _)
Join(parts, sep) ==
    IF parts = <<>> THEN <<>>
    ELSE IF Len(parts) = 1 THEN parts[1]
    ELSE parts[1] \o sep \o Join(Tail(parts), sep)

\* s.replace(old, new), old not empty
Replace(s, old, new) == Join(Split(s, old), new)

\* "".join(parts)
Concat(parts) == Join(parts, <<>>)

\* --------------------------------------------------------- section.py tree

\* Section.parent of the root
None == 0

\* main_section = Section("", 100)
MainSize == 100000

main_section == 1

NestedJournals == {"OrgSci", "AnnRev", "Personnel"}

\* Section.__init__
Section(content, size) ==
    [content |-> content, size |-> size, parent |-> None, children |-> <<>>]

\* Mutant of add_child: the new child is put in front of its siblings.
add_child_Front(ns, p, c) == [ns EXCEPT ![p].children = <<c>> \o @]

\* Section.add_child
add_child(ns, p, c) == [ns EXCEPT ![p].children = Append(@, c)]

\* Section.set_parent
set_parent(ns, c, p) == [ns EXCEPT ![c].parent = p]

\* Section.extend
extend(ns, i, content) == [ns EXCEPT ![i].content = @ \o <<" ">> \o content]

\* Section.print_contents: the content alone for a section without children,
\* else the content, a line break and the children's contents joined by
\* " \n\n ".
RECURSIVE print_contents(_, _)
print_contents(ns, i) ==
    LET RECURSIVE joined(_)
        joined(k) ==
            IF k > Len(ns[i].children) THEN <<>>
            ELSE (IF k = 1 THEN <<>> ELSE <<" ", "\n", "\n", " ">>)
                   \o print_contents(ns, ns[i].children[k]) \o joined(k + 1)
    IN  IF Len(ns[i].children) = 0 THEN ns[i].content
        ELSE ns[i].content \o <<"\n">> \o joined(1)

\* The sections below and including i in the order print_contents visits
\* them: a section, then its children from first to last.
RECURSIVE Preorder(_, _)
Preorder(ns, i) ==
    LET RECURSIVE below(_)
        below(k) ==
            IF k > Len(ns[i].children) THEN <<>>
            ELSE Preorder(ns, ns[i].children[k]) \o below(k + 1)
    IN  <<i>> \o below(1)

\* Mutant of BacktrackParent: attaches to the current section's parent without
\* walking up by size.
BacktrackParent_NoWalk(ns, curr, size) == ns[curr].parent

\* The while loop of Section.backtrack_add: the first section from curr upwards
\* whose size is greater than size; None when the walk steps past the root
\* (curr.size of None raises).
RECURSIVE BacktrackParent(_, _, _)
BacktrackParent(ns, curr, size) ==
    IF curr = None THEN None
    ELSE IF ns[curr].size <= size THEN BacktrackParent(ns, ns[curr].parent, size)
    ELSE curr

\* The override keywords of each profile's get_sections, and how the run's text
\* is compared with them.
OverrideKeywords(j) ==
    CASE j = "OrgSci" ->
           {<<"Acknowledgements">>, <<"References">>, <<"Appendix">>, <<"Endnotes">>}
      [] j = "AnnRev" ->
           {<<"Abstract">>, <<"Keywords">>, <<"LITERATURE", " ", "CITED">>}
      [] j = "Personnel" ->
           {<<"acknowledgements">>, <<"references">>, <<"appendix">>, <<"endnotes">>}

IsOverride(j, text) ==
    IF j = "Personnel" THEN Lower(Strip(text)) \in OverrideKeywords(j)
    ELSE Strip(text) \in OverrideKeywords(j)

\* cur_size = round(lines["size"], 1) (OrgSci, Personnel) or round(.., 2) (AnnRev)
CurSize(j, raw) == IF j = "AnnRev" THEN Round2(raw) ELSE Round1(raw)

\* main_section.children[-1].children[-1]; None when an index is out of range
OverrideParent(ns) ==
    IF ns[main_section].children = <<>> THEN None
    ELSE IF ns[Last(ns[main_section].children)].children = <<>> THEN None
    ELSE Last(ns[Last(ns[main_section].children)].children)

\* Mutant of NewChild: the new section takes the size of its parent.
NewChild_ParentSize(ns, p, text, size) ==
    set_parent(add_child(Append(ns, Section(text, ns[p].size)), p, Len(ns) + 1),
               Len(ns) + 1, p)

\* cur = Section(text, size); p.add_child(cur); cur.set_parent(p)
NewChild(ns, p, text, size) ==
    set_parent(add_child(Append(ns, Section(text, size)), p, Len(ns) + 1),
               Len(ns) + 1, p)

\* The texts and the raw font sizes of the runs fed to the nested builder.
TreeTexts == {<<"References", " ">>, <<"Keywords">>}

RawSizes == {9000, 9960, 10040, 12000, 100000}

TreeInit ==
    /\ journal \in NestedJournals
    /\ nodes = <<Section(<<>>, MainSize)>>
    /\ curr_section = main_section
    /\ prev_size = MainSize
    /\ nruns = 0
    /\ tstatus = "building"
    /\ sections = <<>>
    /\ overridden = {}

TreeIdle ==
    /\ journal = "OrgSci"
    /\ nodes = <<Section(<<>>, MainSize)>>
    /\ curr_section = main_section
    /\ prev_size = MainSize
    /\ nruns = 0
    /\ tstatus = "idle"
    /\ sections = <<>>
    /\ overridden = {}

\* One span of get_sections' loop, manual override branch.
RunOverride(text, raw) ==
    /\ tstatus = "building"
    /\ nruns < MaxRuns
    /\ IsOverride(journal, text)
    /\ nruns' = nruns + 1
    /\ IF OverrideParent(nodes) = None
       THEN /\ tstatus' = "error"
            /\ UNCHANGED <<nodes, curr_section, prev_size, overridden>>
       ELSE /\ nodes' = NewChild(nodes, OverrideParent(nodes), text,
                                 CurSize(journal, raw))
            /\ curr_section' = Len(nodes) + 1
            /\ prev_size' = CurSize(journal, raw)
            /\ overridden' = overridden \cup {Len(nodes) + 1}
            /\ tstatus' = tstatus
    /\ UNCHANGED <<journal, sections>>
    /\ UNCHANGED notTree

\* cur_size > prev_size: backtrack_add
RunLarger(text, raw) ==
    /\ tstatus = "building"
    /\ nruns < MaxRuns
    /\ ~IsOverride(journal, text)
    /\ CurSize(journal, raw) > prev_size
    /\ nruns' = nruns + 1
    /\ IF BacktrackParent(nodes, curr_section, CurSize(journal, raw)) = None
       THEN /\ tstatus' = "error"
            /\ UNCHANGED <<nodes, curr_section, prev_size>>
       ELSE /\ nodes' = NewChild(nodes,
                                 BacktrackParent(nodes, curr_section,
                                                 CurSize(journal, raw)),
                                 text, CurSize(journal, raw))
            /\ curr_section' = Len(nodes) + 1
            /\ prev_size' = CurSize(journal, raw)
            /\ tstatus' = tstatus
    /\ UNCHANGED <<journal, sections, overridden>>
    /\ UNCHANGED notTree

\* cur_size == prev_size: extend
RunEqual(text, raw) ==
    /\ tstatus = "building"
    /\ nruns < MaxRuns
    /\ ~IsOverride(journal, text)
    /\ CurSize(journal, raw) = prev_size
    /\ nruns' = nruns + 1
    /\ nodes' = extend(nodes, curr_section, text)
    /\ prev_size' = CurSize(journal, raw)
    /\ UNCHANGED <<journal, curr_section, tstatus, sections, overridden>>
    /\ UNCHANGED notTree

\* cur_size < prev_size: a new child of the current section
RunSmaller(text, raw) ==
    /\ tstatus = "building"
    /\ nruns < MaxRuns
    /\ ~IsOverride(journal, text)
    /\ CurSize(journal, raw) < prev_size
    /\ nruns' = nruns + 1
    /\ nodes' = NewChild(nodes, curr_section, text, CurSize(journal, raw))
    /\ curr_section' = Len(nodes) + 1
    /\ prev_size' = CurSize(journal, raw)
    /\ UNCHANGED <<journal, tstatus, sections, overridden>>
    /\ UNCHANGED notTree

\* The slice of the tree get_sections returns; <<None>> stands for the
\* IndexError of an out-of-range [-1].
FinalSections(j, ns) ==
    IF ns[main_section].children = <<>> THEN <<None>>
    ELSE LET top == ns[Last(ns[main_section].children)].children IN
         IF top = <<>> THEN <<None>>
         ELSE IF j = "AnnRev"
              THEN IF Len(top) > 1
                   THEN ns[top[Len(top) - 1]].children \o ns[Last(top)].children
                   ELSE ns[Last(top)].children
              ELSE ns[Last(top)].children

\* The end of get_sections: the run sequence is exhausted.
TreeFinish ==
    /\ tstatus = "building"
    /\ IF FinalSections(journal, nodes) = <<None>>
       THEN /\ tstatus' = "error"
            /\ sections' = <<>>
       ELSE /\ tstatus' = "built"
            /\ sections' = FinalSections(journal, nodes)
    /\ UNCHANGED <<journal, nodes, curr_section, prev_size, nruns, overridden>>
    /\ UNCHANGED notTree

TreeNext ==
    \/ \E text \in TreeTexts, raw \in RawSizes : RunOverride(text, raw)
    \/ \E text \in TreeTexts, raw \in RawSizes : RunLarger(text, raw)
    \/ \E text \in TreeTexts, raw \in RawSizes : RunEqual(text, raw)
    \/ \E text \in TreeTexts, raw \in RawSizes : RunSmaller(text, raw)
    \/ TreeFinish

\* -------------------------------------------------------- reference splitter

\* The bound on the length of the bibliography block, in atoms.
MaxBibLen == 4

\* The atoms of a bibliography block: "S1" and "S2" are two texts the
\* entry-start pattern matches (each a maximal match), "t" is text it does not
\* match.
EntryStarts == {"S1", "S2"}

BibAtoms == EntryStarts \cup {"t", " ", "\n"}

\* references = " ".join(re.sub("\n", " ", references_text).split())
Collapse(text) == Join(SplitWS(Replace(text, <<"\n">>, <<" ">>)), <<" ">>)

\* re.findall(pattern, references): the matches of the entry-start pattern, in
\* order
FindEntryStarts(references) ==
    LET at == SelectSeq(references, LAMBDA a : a \in EntryStarts) IN
    [k \in 1..Len(at) |-> <<at[k]>>]

\* Mutant of EntrySpans: the last entry ends where it starts.
EntrySpans_LastEmpty(references, matches) ==
    [idx \in 1..Len(matches) |->
        PySlice(references, PyFind(references, matches[idx]),
                IF idx = Len(matches) THEN PyFind(references, matches[idx])
                ELSE PyFind(references, matches[idx + 1]))]

\* The loop that turns the matches into entry spans: each from the first
\* occurrence of its match to the first occurrence of the next match, the last
\* to the end of the block.
EntrySpans(references, matches) ==
    [idx \in 1..Len(matches) |->
        IF idx = Len(matches)
        THEN PySliceFrom(references, PyFind(references, matches[idx]))
        ELSE PySlice(references, PyFind(references, matches[idx]),
                     PyFind(references, matches[idx + 1]))]

\* text_preprocess_for_reference_matching (annurev, jom, personnel, joap, aom)
text_preprocess_for_reference_matching(references_text) ==
    EntrySpans(Collapse(references_text),
               FindEntryStarts(Collapse(references_text)))

SplitInit ==
    /\ bibtext \in BoundedSeq(BibAtoms, MaxBibLen)
    /\ references_clean = <<>>
    /\ sstatus = "called"

SplitIdle ==
    /\ bibtext = <<>>
    /\ references_clean = <<>>
    /\ sstatus = "idle"

\* The call returns: the function has no raise of its own for a str argument.
SplitReturn ==
    /\ sstatus = "called"
    /\ references_clean' = text_preprocess_for_reference_matching(bibtext)
    /\ sstatus' = "returned"
    /\ UNCHANGED bibtext
    /\ UNCHANGED notSplit

SplitNext == SplitReturn

\* ---------------------------------------------------- in-text citations

\* A Python str is the sequence of its characters.
Chars(str) == [i \in 1..Len(str) |-> SubSeq(str, i, i)]

Digit == Range(Chars("0123456789"))

UpperCase == Range(Chars("ABCDEFGHIJKLMNOPQRSTUVWXYZ"))

LowerCase == Range(Chars("abcdefghijklmnopqrstuvwxyz"))

\* \w
WordChar == Digit \cup UpperCase \cup LowerCase \cup {"_"}

\* \s
SpaceChar == {" ", "\n", "\t"}

AllIn(s, class) == \A k \in 1..Len(s) : s[k] \in class

\* \d{lo,hi} matches all of s
Digits(s, lo, hi) == Len(s) >= lo /\ Len(s) <= hi /\ AllIn(s, Digit)

\* The seven journal profiles of config.py; aom.py does not compile (its
\* process_citations has an except with no try), so "AOM" has no citation
\* handling to run.
CitationJournals == {"OrgSci", "AnnRev", "ASQ", "JOM", "Personnel", "JOAP"}

\* The character class of IN_PARANTHESES_CITATION_REGEX
ParenClass(j) ==
    CASE j = "OrgSci" -> WordChar \cup SpaceChar \cup {".", ","}
      [] j = "AnnRev" -> WordChar \cup SpaceChar \cup {"&", ".", ","}
      [] j = "Personnel" \/ j = "JOAP" ->
            WordChar \cup SpaceChar \cup {"&", "\\", ".", ",", "-", ";"}
      [] OTHER -> WordChar \cup SpaceChar \cup {"&", ".", ",", "-", ";"}

\* \s\d{3,4} then the profile's ending, matching all of t:
\*   OrgSci \s?\)    AnnRev, ASQ \)    JOM (?::\s\d{1,4})?\)
\*   Personnel, JOAP (?::\s\d{1,4})?\s\)
YearTail(j, t) ==
    /\ Len(t) >= 5
    /\ t[1] \in SpaceChar
    /\ Last(t) = ")"
    /\ \E d \in {3, 4} :
        /\ Len(t) >= d + 2
        /\ Digits(SubSeq(t, 2, d + 1), d, d)
        /\ LET rest == SubSeq(t, d + 2, Len(t) - 1) IN
           LET page(r) == /\ Len(r) >= 3
                          /\ r[1] = ":"
                          /\ r[2] \in SpaceChar
                          /\ Digits(SubSeq(r, 3, Len(r)), 1, 4) IN
           CASE j = "OrgSci" -> rest = <<>> \/ (Len(rest) = 1 /\ rest[1] \in SpaceChar)
             [] j = "JOM" -> rest = <<>> \/ page(rest)
             [] j = "Personnel" \/ j = "JOAP" ->
                   /\ rest # <<>>
                   /\ Last(rest) \in SpaceChar
                   /\ LET r == SubSeq(rest, 1, Len(rest) - 1) IN r = <<>> \/ page(r)
             [] OTHER -> rest = <<>>

\* The first position >= i of text holding a character of class, 0 if none
RECURSIVE NextIn(_, _, _)
NextIn(text, i, class) ==
    IF i > Len(text) THEN 0
    ELSE IF text[i] \in class THEN i
    ELSE NextIn(text, i + 1, class)

\* IN_PARANTHESES_CITATION_REGEX at position i: the position of the last
\* character of the match, 0 if it does not match there. The class holds no
\* parenthesis, so the match ends at the first ")" after i.
ParenEnd(j, text, i) ==
    IF text[i] # "(" THEN 0
    ELSE LET e == NextIn(text, i + 1, {"(", ")"}) IN
         IF e = 0 \/ text[e] # ")" THEN 0
         ELSE IF \E k \in (i + 1)..(e - 1) :
                    /\ AllIn(SubSeq(text, i + 1, k), ParenClass(j))
                    /\ YearTail(j, SubSeq(text, k + 1, e))
              THEN e ELSE 0

\* " \(\d{3,4}\)" at position i (the space): the position of the ")", 0 if none
NarrativeYearEnd(text, i) ==
    IF \E d \in {3, 4} :
          /\ i + d + 2 <= Len(text)
          /\ text[i] = " "
          /\ text[i + 1] = "("
          /\ Digits(SubSeq(text, i + 2, i + d + 1), d, d)
          /\ text[i + d + 2] = ")"
    THEN CHOOSE e \in {i + 5, i + 6} : e <= Len(text) /\ text[e] = ")"
                                       /\ Digits(SubSeq(text, i + 2, e - 1), 3, 4)
    ELSE 0

\* The end of the run of non-space characters starting at i (\S+), 0 if
\* text[i] is a space
NonSpaceRunEnd(text, i) ==
    IF i > Len(text) \/ text[i] \in SpaceChar THEN 0
    ELSE LET n == NextIn(text, i, SpaceChar) IN
         IF n = 0 THEN Len(text) ELSE n - 1

\* The word that joins two authors in AND_PATTERN
AndWord(j) ==
    IF j \in {"AnnRev", "JOM"} THEN Chars(" & ") ELSE Chars(" and ")

\* AND_PATTERN "\S+ and \S+ \(\d{3,4}\)" at position i
AndEnd(j, text, i) ==
    LET a == NonSpaceRunEnd(text, i) IN
    IF a = 0 \/ a + Len(AndWord(j)) > Len(text) THEN 0
    ELSE IF SubSeq(text, a + 1, a + Len(AndWord(j))) # AndWord(j) THEN 0
    ELSE LET b == NonSpaceRunEnd(text, a + Len(AndWord(j)) + 1) IN
         IF b = 0 THEN 0 ELSE NarrativeYearEnd(text, b + 1)

\* ONE_PATTERN "[A-Z]\S+ \(\d{3,4}\)" at position i
OneEnd(text, i) ==
    IF text[i] \notin UpperCase THEN 0
    ELSE LET a == NonSpaceRunEnd(text, i + 1) IN
         IF a = 0 THEN 0 ELSE NarrativeYearEnd(text, a + 1)

\* ET_AL_PATTERN "[A-Z][a-z] et al. \(\d{3,4}\)" at position i
EtAlEnd(text, i) ==
    IF /\ i + 8 <= Len(text)
       /\ text[i] \in UpperCase
       /\ text[i + 1] \in LowerCase
       /\ SubSeq(text, i + 2, i + 7) = Chars(" et al")
       /\ text[i + 8] # "\n"
    THEN NarrativeYearEnd(text, i + 9)
    ELSE 0

\* One alternative after the other at position i, as the regex engine tries
\* them: the end of the first that matches, 0 if none does. OrgSci has only the
\* parenthesised pattern.
CitationEnd(j, text, i) ==
    LET p == ParenEnd(j, text, i)
        a == AndEnd(j, text, i)
        o == OneEnd(text, i) IN
    IF p # 0 THEN p
    ELSE IF j = "OrgSci" THEN 0
    ELSE IF a # 0 THEN a
    ELSE IF o # 0 THEN o
    ELSE EtAlEnd(text, i)

\* re.findall(IN_TEXT_CITATION_REGEX, text) from position i on: the leftmost
\* match, then the matches after it
RECURSIVE FindAllFrom(_, _, _)
FindAllFrom(j, text, i) ==
    IF i > Len(text) THEN <<>>
    ELSE LET e == CitationEnd(j, text, i) IN
         IF e = 0 THEN FindAllFrom(j, text, i + 1)
         ELSE <<SubSeq(text, i, e)>> \o FindAllFrom(j, text, e + 1)

get_in_text_citations(j, text) == FindAllFrom(j, text, 1)

\* ------------------------------------------------------ process_citations

\* What process_citations gives for one citation: an (authors, year) pair, None,
\* or an exception that leaves the function ("raised"). parsed is FALSE when the
\* except clause of the function produced the result.
Pair(authors, year) ==
    [kind |-> "pair", authors |-> authors, year |-> year, parsed |-> TRUE]

\* results.append(([""], "")) of asq.py and jom.py
Placeholder ==
    [kind |-> "pair", authors |-> <<<<>>>>, year |-> <<>>, parsed |-> FALSE]

NoneResult ==
    [kind |-> "none", authors |-> <<>>, year |-> <<>>, parsed |-> TRUE]

\* results.append(None) of personnel.py and joap.py
NoneOnError ==
    [kind |-> "none", authors |-> <<>>, year |-> <<>>, parsed |-> FALSE]

Raised ==
    [kind |-> "raised", authors |-> <<>>, year |-> <<>>, parsed |-> FALSE]

\* list[:-1]
Front(s) == SubSeq(s, 1, Len(s) - 1)

\* [f(x) for x in s]
MapSeq(s, f(_)) == [k \in 1..Len(s) |-> f(s[k])]

\* The word that marks two authors in process_citations of orgsci.py and
\* annurev.py
PairWord(j) == IF j = "OrgSci" THEN Chars(" and ") ELSE Chars("&")

\* process_citations of orgsci.py and annurev.py: one citation, one result
process_citation(j, citation) ==
    LET tokens == SplitWS(citation) IN
    IF Contains(citation, PairWord(j))
    THEN LET names_split == Split(Join(Front(tokens), Chars(" ")), PairWord(j)) IN
         IF Len(names_split) < 2 THEN Raised
         ELSE Pair(<<Strip(names_split[1]), Strip(names_split[2])>>,
                   Strip(Last(tokens)))
    ELSE IF Contains(citation, Chars("et al."))
    THEN LET parts == Split(citation, Chars("et al.")) IN
         Pair(<<Strip(parts[1])>>, Strip(parts[2]))
    ELSE IF Len(tokens) = 1 THEN NoneResult
    ELSE IF Len(tokens) = 0 THEN Raised
    ELSE Pair(<<Strip(Join(Front(tokens), Chars(" ")))>>, Strip(Last(tokens)))

\* What the except clause inside the loop appends: the placeholder in asq.py
\* and jom.py, None in personnel.py and joap.py
OnError(j) == IF j \in {"ASQ", "JOM"} THEN Placeholder ELSE NoneOnError

\* The names process_citations throws away
SkippedNames(j) ==
    IF j = "ASQ" THEN {<<>>, Chars("e.g.")}
    ELSE {Chars("e.g.,"), <<>>, Chars("quoted"), Chars("in")}

\* case 1, several authors: the text before the last comma holds the names
SeveralAuthors(j, citation) ==
    LET tokens == Split(citation, Chars(",")) IN
    IF j = "ASQ"
    THEN LET kept == SelectSeq(MapSeq(Front(tokens), Strip),
                               LAMBDA n : n \notin SkippedNames(j)) IN
         Pair(MapSeq(kept, LAMBDA n : Replace(n, Chars(" and "), Chars(","))),
              Strip(Last(tokens)))
    ELSE LET names == Replace(Join(Front(tokens), Chars(",")),
                              Chars(" & "), Chars(",")) IN
         LET kept == SelectSeq(Split(names, Chars(",")),
                               LAMBDA n : Strip(n) \notin SkippedNames(j)) IN
         Pair(MapSeq(kept, LAMBDA n : Strip(Last(SplitWS(n)))),
              Strip(Last(tokens)))

\* case 2, "et al.": the names before the last comma, without "et al."
EtAl(j, citation) ==
    LET tokens == Split(Replace(citation, Chars("et al."), <<>>), Chars(",")) IN
    Pair(SelectSeq(MapSeq(Front(tokens), Strip), LAMBDA n : n # <<>>),
         Strip(Last(tokens)))

\* case 3, one author: "Author (year)" or "..., Author, year"
OneAuthor(j, citation) ==
    IF Contains(citation, Chars("("))
    THEN LET tokens == SplitWS(citation) IN
         IF Len(tokens) # 2 THEN OnError(j)
         ELSE IF j = "ASQ" THEN Pair(<<tokens[1]>>, PySlice(tokens[2], 1, -1))
         ELSE IF j = "JOM"
         THEN Pair(<<Last(SplitWS(tokens[1]))>>, PySlice(tokens[2], 1, -1))
         ELSE Pair(<<Strip(Last(SplitWS(tokens[1])))>>,
                   Strip(PySlice(tokens[2], 1, -1)))
    ELSE LET citation_split == Split(citation, Chars(",")) IN
         IF j = "ASQ"
         THEN LET names == Front(citation_split) IN
              IF Len(names) < 2 THEN OnError(j)
              ELSE Pair(<<Strip(names[Len(names) - 1])>>, Strip(Last(names)))
         ELSE IF Len(citation_split) < 2 THEN OnError(j)
         ELSE LET author == SplitWS(citation_split[Len(citation_split) - 1]) IN
              LET year == Split(Last(citation_split), Chars(":"))[1] IN
              IF author = <<>> THEN OnError(j)
              ELSE IF j = "JOM" THEN Pair(<<Last(author)>>, year)
              ELSE Pair(<<Strip(Last(author))>>, Strip(year))

\* The word that marks several authors
SeveralWord(j) == IF j = "ASQ" THEN Chars(" and ") ELSE Chars(" & ")

\* The body of the loop of process_citations (asq.py, jom.py, personnel.py,
\* joap.py): the results one citation of the group appends. In jom.py the
\* "et al." test is an if, not an elif, so a citation of several authors goes on
\* to case 2 or case 3 and appends a second result.
ProcessOne(j, citation) ==
    IF Contains(citation, SeveralWord(j))
    THEN IF j # "JOM" THEN <<SeveralAuthors(j, citation)>>
         ELSE IF Contains(citation, Chars("et al."))
         THEN <<SeveralAuthors(j, citation), EtAl(j, citation)>>
         ELSE <<SeveralAuthors(j, citation), OneAuthor(j, citation)>>
    ELSE IF Contains(citation, Chars("et al.")) THEN <<EtAl(j, citation)>>
    ELSE <<OneAuthor(j, citation)>>

\* process_citations(citation_group): the results of the citations between ";"
process_citations(j, citation_group) ==
    IF j \in {"OrgSci", "AnnRev"} THEN <<process_citation(j, citation_group)>>
    ELSE Concat(MapSeq(Split(citation_group, Chars(";")),
                       LAMBDA c : ProcessOne(j, c)))

\* ------------------------------------------------ clean_in_text_citations

\* re.sub(" \((\d{4})\)", r", \1", citation): " (2020)" becomes ", 2020"
RECURSIVE SubNarrativeYear(_)
SubNarrativeYear(citation) ==
    IF citation = <<>> THEN <<>>
    ELSE IF /\ Len(citation) >= 7
            /\ citation[1] = " "
            /\ citation[2] = "("
            /\ Digits(SubSeq(citation, 3, 6), 4, 4)
            /\ citation[7] = ")"
    THEN Chars(", ") \o SubSeq(citation, 3, 6)
         \o SubNarrativeYear(SubSeq(citation, 8, Len(citation)))
    ELSE <<Head(citation)>> \o SubNarrativeYear(Tail(citation))

\* The replacements personnel.py and joap.py start with (the text holds ASCII
\* only, so the test for a typographic apostrophe-s never fires)
CleanWords(citation) ==
    Replace(Replace(SubNarrativeYear(citation), Chars(" and "), Chars(" & ")),
            Chars("- "), <<>>)

\* citation[:-2] if citation.endswith(" )")
DropClosing(citation) ==
    IF s_endswith(citation, Chars(" )")) THEN PySlice(citation, 0, -2)
    ELSE citation

HasExample(citation) ==
    Contains(citation, Chars("e.g.")) \/ Contains(citation, Chars("i.e."))

\* The cleaning of one citation, per profile; the result is a list because
\* orgsci.py and annurev.py split the citation on commas here.
CleanOne(j, citation) ==
    CASE j = "OrgSci" ->
            MapSeq(SelectSeq(Split(PySlice(citation, 1, -1), Chars(",")),
                             LAMBDA c : \E k \in 1..Len(c) : c[k] \in Digit),
                   Strip)
      [] j = "AnnRev" ->
            Split(Replace(Replace(Replace(citation, Chars("see also"), <<>>),
                                  Chars("("), <<>>),
                          Chars(")"), <<>>),
                  Chars(","))
      [] j \in {"ASQ", "JOM"} ->
            <<IF citation[1] # "(" THEN citation ELSE PySlice(citation, 1, -1)>>
      [] j = "Personnel" ->
            LET c == DropClosing(CleanWords(citation)) IN
            <<IF s_startswith(c, Chars("(see ")) THEN PySliceFrom(c, 5)
              ELSE IF HasExample(c) THEN PySliceFrom(c, 7)
              ELSE IF s_startswith(c, Chars("(")) THEN PySliceFrom(c, 1)
              ELSE c>>
      [] j = "JOAP" ->
            LET c == DropClosing(CleanWords(citation)) IN
            <<IF s_startswith(c, Chars("( ")) THEN PySliceFrom(c, 2)
              ELSE IF s_startswith(c, Chars("(for an exception see"))
              THEN PySliceFrom(c, 22)
              ELSE IF HasExample(c) THEN PySliceFrom(c, 8)
              ELSE c>>

\* The cleaned citations of a section, in order
clean_in_text_citations(j, in_text_citations) ==
    Concat(MapSeq(in_text_citations, LAMBDA c : CleanOne(j, c)))

\* --------------------------------------------------- find_citation_matches

\* The dict references_dictionary as the list of its items in insertion order:
\* data.get(reference, [])
DictGet(data, reference) ==
    IF \E k \in 1..Len(data) : data[k].reference = reference
    THEN data[CHOOSE k \in 1..Len(data) : data[k].reference = reference].section
    ELSE <<>>

\* data[reference] = value
DictSet(data, reference, value) ==
    IF \E k \in 1..Len(data) : data[k].reference = reference
    THEN [k \in 1..Len(data) |->
            IF data[k].reference = reference
            THEN [reference |-> reference, section |-> value] ELSE data[k]]
    ELSE Append(data, [reference |-> reference, section |-> value])

\* Mutant of AddLocation: the location is appended whether or not the list
\* holds it.
AddLocation_NoGuard(data, reference, location) ==
    DictSet(data, reference, DictGet(data, reference) \o <<location>>)

\* Mutant of AddLocation: a new location goes to the front of the list.
AddLocation_Front(data, reference, location) ==
    IF location \notin Range(DictGet(data, reference))
    THEN DictSet(data, reference, <<location>> \o DictGet(data, reference))
    ELSE data

\* What find_citation_matches does on a match: the location joins the list of
\* the reference unless the list holds it.
AddLocation(data, reference, location) ==
    LET dict_value == DictGet(data, reference) IN
    LET d1 == IF dict_value = <<>> THEN DictSet(data, reference, <<>>)
              ELSE data IN
    IF location \notin Range(dict_value)
    THEN DictSet(d1, reference, DictGet(d1, reference) \o <<location>>)
    ELSE d1

\* The test on the year: orgsci.py looks for "(year)", jom.py refuses the empty
\* year, the other profiles look for the year string.
YearIn(j, year, reference) ==
    CASE j = "OrgSci" -> Contains(reference, Chars("(") \o year \o Chars(")"))
      [] j = "JOM" -> Contains(reference, year) /\ year # <<>>
      [] OTHER -> Contains(reference, year)

\* Mutant of AuthorsIn: no author is looked for.
AuthorsIn_Unchecked(j, authors, reference) == TRUE

\* The loop over the authors: each is a substring of the reference (jom.py also
\* refuses an empty author).
AuthorsIn(j, authors, reference) ==
    \A k \in 1..Len(authors) :
        /\ Contains(reference, authors[k])
        /\ j = "JOM" => authors[k] # <<>>

\* Mutant of MatchReferences: the key of a reference is created before the
\* reference is tested.
RECURSIVE MatchReferences_KeyFirst(_, _, _, _, _, _)
MatchReferences_KeyFirst(j, pair, full_references, r, data, location) ==
    IF r > Len(full_references) THEN data
    ELSE LET keyed == IF DictGet(data, full_references[r]) = <<>>
                      THEN DictSet(data, full_references[r], <<>>)
                      ELSE data IN
         MatchReferences_KeyFirst(j, pair, full_references, r + 1,
            IF /\ YearIn(j, pair.year, full_references[r])
               /\ AuthorsIn(j, pair.authors, full_references[r])
            THEN AddLocation(keyed, full_references[r], location)
            ELSE keyed,
            location)

\* The loop over full_references for one author_year_pair, from reference r on
RECURSIVE MatchReferences(_, _, _, _, _, _)
MatchReferences(j, pair, full_references, r, data, location) ==
    IF r > Len(full_references) THEN data
    ELSE MatchReferences(j, pair, full_references, r + 1,
            IF /\ YearIn(j, pair.year, full_references[r])
               /\ AuthorsIn(j, pair.authors, full_references[r])
            THEN AddLocation(data, full_references[r], location)
            ELSE data,
            location)

\* find_citation_matches(author_year_pairs, full_references, data, location)
RECURSIVE find_citation_matches(_, _, _, _, _)
find_citation_matches(j, author_year_pairs, full_references, data, location) ==
    IF author_year_pairs = <<>> THEN data
    ELSE find_citation_matches(j, Tail(author_year_pairs), full_references,
            MatchReferences(j, Head(author_year_pairs), full_references, 1,
                            data, location),
            location)

\* ------------------------------------------------ make_references_dataframe

\* The bound on the number of sections before the bibliography.
MaxSections == 2

\* The entries a bibliography may hold.
ReferencePool ==
    <<Chars("Lee, K., & Park, J. 2020. Teams."),
      Chars("Park, J. 2020. Solo."),
      Chars("Kim, S. (2020). Alone.")>>

\* The sub-lists of a list, order kept.
SubLists(s) ==
    {LET kept == SelectSeq([k \in 1..Len(s) |-> k], LAMBDA k : k \in K) IN
     [i \in 1..Len(kept) |-> s[kept[i]]] : K \in SUBSET (1..Len(s))}

\* The headings and the texts of the sections before the bibliography.
Locations == {Chars("Intro"), Chars("Methods")}

SectionTexts ==
    {Chars("x (Lee & Park, 2020) y"),
     Chars("as Park (2020) said (Kim, 2020)"),
     Chars("(Kim, 2020 ) or (Lee and Park, 2020 )"),
     Chars("(Park et al., 2020; Kim 2020)"),
     Chars("(Kim 2020) or (Lee and Park 2020)"),
     Chars("(Kim, , 2020)"),
     Chars("no citation (at all)")}

\* The headings a bibliography section may have, and its texts.
ReferenceHeadings ==
    {Chars("References"), Chars("REFERENCES"), Chars("LITERATURE CITED")}

ReferenceTexts == {Join(l, Chars(" ")) : l \in SubLists(ReferencePool)}

\* The rows of sections_df (the items of the sections mapping): up to
\* MaxSections sections under distinct headings, then the bibliography section
\* if the document has one.
BodyRows ==
    {b \in BoundedSeq([heading : Locations, text : SectionTexts], MaxSections) :
        \A x, y \in 1..Len(b) : b[x].heading = b[y].heading => x = y}

Documents ==
    BodyRows \cup
    {Append(b, [heading |-> h, text |-> t]) :
        b \in BodyRows, h \in ReferenceHeadings, t \in ReferenceTexts}

NoIteration ==
    [location |-> <<>>, text |-> <<>>, results |-> <<>>, before |-> <<>>]

MatchInit ==
    /\ mjournal \in CitationJournals
    /\ rows \in Documents
    /\ references_list = <<>>
    /\ references_dictionary = <<>>
    /\ nsections = 0
    /\ mstatus = "start"
    /\ references_df = <<>>
    /\ passed = {}
    /\ last = NoIteration
    /\ run = 1
    /\ first_df = <<>>

MatchIdle ==
    /\ mjournal = "OrgSci"
    /\ rows = <<>>
    /\ references_list = <<>>
    /\ references_dictionary = <<>>
    /\ nsections = 0
    /\ mstatus = "idle"
    /\ references_df = <<>>
    /\ passed = {}
    /\ last = NoIteration
    /\ run = 1
    /\ first_df = <<>>

\* The heading under which each profile looks for the bibliography
ReferencesKey(j) ==
    CASE j = "AnnRev" -> Chars("LITERATURE CITED")
      [] j \in {"ASQ", "Personnel"} -> Chars("REFERENCES")
      [] OTHER -> Chars("References")

\* The row whose text is taken as the bibliography, 0 when the lookup raises
\* (IndexError, ValueError, KeyError): orgsci.py takes sections[-1], annurev.py
\* sections.index("LITERATURE CITED") (Section.__eq__ strips the heading), the
\* other profiles the key of the mapping.
ReferencesRow(j, sr) ==
    LET found == {k \in 1..Len(sr) :
                    IF j = "AnnRev"
                    THEN Strip(sr[k].heading) = ReferencesKey(j)
                    ELSE sr[k].heading = ReferencesKey(j)} IN
    IF j = "OrgSci" THEN Len(sr)
    ELSE IF found = {} THEN 0
    ELSE Min(found)

\* What text_preprocess_for_reference_matching may return for a text: entries
\* that are parts of the collapsed text, in the order of the text (the
\* function itself is the reference splitter above).
SplitResults(text) ==
    {l \in SubLists(ReferencePool) :
        \A k \in 1..Len(l) : Contains(Collapse(text), l[k])}

\* The rows the loop reads: orgsci.py, annurev.py and jom.py leave out the last
\* row (sections_df.index[:-1]), the other profiles read every row
LoopRows(j, sr) ==
    IF j \in {"OrgSci", "AnnRev", "JOM"} THEN Front(sr) ELSE sr

\* The start of make_references_dataframe: the bibliography is looked up and
\* split into entries.
StartReferences ==
    /\ mstatus = "start"
    /\ IF ReferencesRow(mjournal, rows) = 0
       THEN /\ mstatus' = "raised"
            /\ UNCHANGED references_list
       ELSE /\ mstatus' = "matching"
            /\ references_list'
                  \in SplitResults(rows[ReferencesRow(mjournal, rows)].text)
    /\ UNCHANGED <<mjournal, rows, references_dictionary, nsections,
                   references_df, passed, last, run, first_df>>
    /\ UNCHANGED notMatch

\* What the body of the loop computes from the text of a section: the results
\* of process_citations for its cleaned citations, in order
SectionResults(j, text) ==
    Concat(MapSeq(clean_in_text_citations(j, get_in_text_citations(j, text)),
                  LAMBDA c : process_citations(j, c)))

\* The results for every profile and every section text of the model, computed
\* once
SectionResultsOf ==
    [j \in CitationJournals |->
        [text \in SectionTexts \cup ReferenceTexts |-> SectionResults(j, text)]]

\* filter(lambda x: x != None, ...)
NotNone(results) == SelectSeq(results, LAMBDA r : r.kind # "none")

\* One iteration of the loop over the rows of sections_df: the citations of the
\* section are extracted, cleaned and processed and their pairs matched
\* against the entries. An exception in process_citations of orgsci.py or
\* annurev.py leaves make_references_dataframe.
ProcessSection ==
    /\ mstatus = "matching"
    /\ nsections < Len(LoopRows(mjournal, rows))
    /\ nsections' = nsections + 1
    /\ LET location == rows[nsections + 1].heading
           text == rows[nsections + 1].text
           results == SectionResultsOf[mjournal][text] IN
       /\ last' = [location |-> location, text |-> text, results |-> results,
                   before |-> references_dictionary]
       /\ IF \E k \in 1..Len(results) : results[k].kind = "raised"
          THEN /\ mstatus' = "raised"
               /\ UNCHANGED <<references_dictionary, passed>>
          ELSE /\ references_dictionary' =
                    find_citation_matches(mjournal, NotNone(results),
                        references_list, references_dictionary, location)
               /\ passed' = passed \cup
                    {[location |-> location, authors |-> r.authors,
                      year |-> r.year] : r \in Range(NotNone(results))}
               /\ UNCHANGED mstatus
    /\ UNCHANGED <<mjournal, rows, references_list, references_df, run,
                   first_df>>
    /\ UNCHANGED notMatch

\* The orders in which the locations of a reference may be read as if they
\* were kept in an unordered set: every permutation.
LocationOrders_Unordered(section) ==
    {p \in [1..Len(section) -> Range(section)] : Range(p) = Range(section)}

\* The orders in which ",".join(v) may read the locations of a reference: v is
\* a list, read in its own order.
LocationOrders(section) == {section}

\* The tables {k: ",".join(v) for k, v in references_dictionary.items()} may
\* give: one row per key of the dict, in the order of the dict.
Tables(data) ==
    {[k \in 1..Len(data) |->
        [reference |-> data[k].reference,
         section |-> Join(o[k], Chars(","))]] :
     o \in {c \in [1..Len(data) ->
                    UNION {LocationOrders(data[k].section) : k \in 1..Len(data)}] :
                \A k \in 1..Len(data) : c[k] \in LocationOrders(data[k].section)}}

\* After the loop: one row per key of the dict, its locations joined by ","
MatchFinish ==
    /\ mstatus = "matching"
    /\ nsections = Len(LoopRows(mjournal, rows))
    /\ references_df' \in Tables(references_dictionary)
    /\ mstatus' = "done"
    /\ UNCHANGED <<mjournal, rows, references_list, references_dictionary,
                   nsections, passed, last, run, first_df>>
    /\ UNCHANGED notMatch

\* make_references_dataframe is called again on the same sections, the
\* bibliography giving the same entries: the dict starts empty and the loop
\* starts from the first row.
MatchAgain ==
    /\ mstatus = "done"
    /\ run = 1
    /\ run' = 2
    /\ first_df' = references_df
    /\ references_dictionary' = <<>>
    /\ nsections' = 0
    /\ references_df' = <<>>
    /\ last' = NoIteration
    /\ mstatus' = "matching"
    /\ UNCHANGED <<mjournal, rows, references_list, passed>>
    /\ UNCHANGED notMatch

MatchNext ==
    \/ StartReferences
    \/ ProcessSection
    \/ MatchFinish
    \/ MatchAgain

\* ------------------------------------------------------------ flat builder

\* The bound on the number of fragments of the document.
MaxFragments == 3

FlatJournals == {"ASQ", "JOAP", "AOM"}

\* The fragments of the model: a text, a font name as the list of its parts
\* around "+", and a size in thousandths of a point.
FragmentTexts == {Chars("REFERENCES"), Chars("Keywords"), Chars("a b Text")}

FragmentFonts == {<<"AdvP2A83">>, <<"Times-Bold">>, <<"ABCDEF", "Body">>}

FragmentSizes == {9960, 9996, 10004, 12000}

\* The fragments a document is made of: headings in the header fonts at the
\* header size, body text in a body font at either size or in a header font at
\* the larger size, and a body fragment whose text is that of a heading.
Fragments ==
    {fr \in FragmentTexts \X FragmentFonts \X FragmentSizes :
        \/ /\ fr[2] \in {<<"AdvP2A83">>, <<"Times-Bold">>}
           /\ fr[3] = 10004
           /\ fr[1] \in {Chars("REFERENCES"), Chars("Keywords")}
        \/ /\ fr[2] \in {<<"Times-Bold">>, <<"ABCDEF", "Body">>}
           /\ fr[3] = 12000
           /\ fr[1] = Chars("a b Text")
        \/ /\ fr[2] = <<"ABCDEF", "Body">>
           /\ fr[3] \in {9960, 9996, 10004}
           /\ fr[1] = Chars("a b Text")
        \/ /\ fr[2] = <<"ABCDEF", "Body">>
           /\ fr[3] = 12000
           /\ fr[1] = Chars("REFERENCES")}

\* ABSTRACT_KEY and HEADERS_KEY of asq.py, HEADER_KEY of joap.py
ABSTRACT_KEY == <<"AdvPSA35F", 10000>>

HEADERS_KEY == <<"AdvP2A83", 10000>>

HEADER_KEY == <<"Times-Bold", 10000>>

\* AOM_HEADER_SIZE of aom.py: the two candidate header sizes, in the order
\* they are tried
AOM_HEADER_SIZE == <<9960, 10000>>

\* fonts.get(key, [])
FontsGet(f, key) ==
    IF \E k \in 1..Len(f) : f[k].key = key
    THEN f[CHOOSE k \in 1..Len(f) : f[k].key = key].val
    ELSE <<>>

\* fonts[key] = val
FontsSet(f, key, val) ==
    IF \E k \in 1..Len(f) : f[k].key = key
    THEN [k \in 1..Len(f) |->
            IF f[k].key = key THEN [key |-> key, val |-> val] ELSE f[k]]
    ELSE Append(f, [key |-> key, val |-> val])

\* s[-1] = s[-1] + " " + text
ExtendLast(s, text) ==
    [s EXCEPT ![Len(s)] = @ \o Chars(" ") \o text]

\* Mutant of StartState: the run sequence and the index of the previous call
\* are kept.
StartState_Kept(s, f) ==
    [seqs |-> s, fonts |-> f, fprev |-> [size |-> 0, font |-> "0"]]

\* What structure_doc_by_size_and_font starts from, whatever an earlier call
\* left in s and f: fonts = {}, seqs = [], prev_size, prev_font = 0, 0.
StartState(s, f) ==
    [seqs |-> <<>>, fonts |-> <<>>, fprev |-> [size |-> 0, font |-> "0"]]

FlatInit ==
    /\ fjournal \in FlatJournals
    /\ nfragments = 0
    /\ seqs = <<>>
    /\ fonts = <<>>
    /\ fprev = [size |-> 0, font |-> "0"]
    /\ pdf_headers = <<>>
    /\ text_nest = <<>>
    /\ fstatus = "reading"
    /\ doc = <<>>
    /\ frun = 1
    /\ first_seqs = <<>>
    /\ first_fonts = <<>>

FlatIdle ==
    /\ fjournal = "ASQ"
    /\ nfragments = 0
    /\ seqs = <<>>
    /\ fonts = <<>>
    /\ fprev = [size |-> 0, font |-> "0"]
    /\ pdf_headers = <<>>
    /\ text_nest = <<>>
    /\ fstatus = "idle"
    /\ doc = <<>>
    /\ frun = 1
    /\ first_seqs = <<>>
    /\ first_fonts = <<>>

\* The fragment the tokenizer reads next: in the first call any fragment (it
\* joins the document), in a second call the next fragment of the document.
NextFragment(text, font, raw) ==
    /\ fstatus = "reading"
    /\ IF frun = 1
       THEN /\ nfragments < MaxFragments
            /\ doc' = Append(doc, <<text, font, raw>>)
       ELSE /\ nfragments < Len(doc)
            /\ doc[nfragments + 1] = <<text, font, raw>>
            /\ doc' = doc
    /\ nfragments' = nfragments + 1

\* The body of the loop of structure_doc_by_size_and_font for one fragment:
\* the size is rounded to two decimals and the font is the part of its name
\* before the first "+"; a fragment of the size and font of the previous one
\* joins the last run and the last text under its key, any other starts a new
\* run and a new text under its key.
\* Mutant of SameAsPrevious: no fragment continues the run before it.
SameAsPrevious_Never(p, font, raw) == FALSE

SameAsPrevious(p, font, raw) == Round2(raw) = p.size /\ font[1] = p.font

ReadFragment(s, f, p, text, font, raw) ==
    LET cur_size == Round2(raw)
        cur_font == font[1]
        key == <<cur_font, cur_size>>
    IN  [seqs |-> IF SameAsPrevious(p, font, raw)
                  THEN ExtendLast(s, text) ELSE Append(s, text),
         fonts |-> IF SameAsPrevious(p, font, raw)
                   THEN FontsSet(f, key, ExtendLast(FontsGet(f, key), text))
                   ELSE FontsSet(f, key, Append(FontsGet(f, key), text)),
         fprev |-> [size |-> cur_size, font |-> cur_font]]

\* The tokenizer reads a fragment that continues the current run.
FragmentSame(text, font, raw) ==
    /\ NextFragment(text, font, raw)
    /\ SameAsPrevious(fprev, font, raw)
    /\ seqs' = ReadFragment(seqs, fonts, fprev, text, font, raw).seqs
    /\ fonts' = ReadFragment(seqs, fonts, fprev, text, font, raw).fonts
    /\ fprev' = ReadFragment(seqs, fonts, fprev, text, font, raw).fprev
    /\ UNCHANGED <<fjournal, pdf_headers, text_nest, fstatus, frun, first_seqs,
                   first_fonts>>
    /\ UNCHANGED notFlat

\* The tokenizer reads a fragment that starts a new run.
FragmentNew(text, font, raw) ==
    /\ NextFragment(text, font, raw)
    /\ ~SameAsPrevious(fprev, font, raw)
    /\ seqs' = ReadFragment(seqs, fonts, fprev, text, font, raw).seqs
    /\ fonts' = ReadFragment(seqs, fonts, fprev, text, font, raw).fonts
    /\ fprev' = ReadFragment(seqs, fonts, fprev, text, font, raw).fprev
    /\ UNCHANGED <<fjournal, pdf_headers, text_nest, fstatus, frun, first_seqs,
                   first_fonts>>
    /\ UNCHANGED notFlat

\* sorted(fonts.items(), key=lambda x: x[0][1], reverse=True): a stable sort,
\* larger sizes first.
RECURSIVE SortedFonts(_)
SortedFonts(f) ==
    IF f = <<>> THEN <<>>
    ELSE LET m == CHOOSE x \in {f[k].key[2] : k \in 1..Len(f)} :
                      \A k \in 1..Len(f) : f[k].key[2] <= x
         IN  SelectSeq(f, LAMBDA e : e.key[2] = m)
               \o SortedFonts(SelectSeq(f, LAMBDA e : e.key[2] # m))

NoHeaders == [kind |-> "raised", headers |-> <<>>]

\* The first item of f whose key has the size `header`, 0 when there is none.
FirstOfSize(f, header) ==
    IF \E k \in 1..Len(f) : f[k].key[2] = header
    THEN Min({k \in 1..Len(f) : f[k].key[2] = header})
    ELSE 0

\* get_headers of aom.py from the h-th candidate size on: the first item
\* whose size is the candidate ends the search with val[1:], whatever is left
\* of it; [] when no item has either size.
RECURSIVE aom_get_headers(_, _)
aom_get_headers(f, h) ==
    IF h > Len(AOM_HEADER_SIZE) THEN <<>>
    ELSE IF FirstOfSize(f, AOM_HEADER_SIZE[h]) # 0
    THEN PySliceFrom(f[FirstOfSize(f, AOM_HEADER_SIZE[h])].val, 1)
    ELSE aom_get_headers(f, h + 1)

\* get_headers of asq.py: the texts under the two keys, in the order
\* first_part[:2] + second_part + first_part[2:]; of joap.py: the texts under
\* HEADER_KEY, the lookup raising when the key is absent.
get_headers(j, f) ==
    IF j = "ASQ"
    THEN LET first_part == FontsGet(f, ABSTRACT_KEY)
             second_part == FontsGet(f, HEADERS_KEY)
         IN  [kind |-> "ok",
              headers |-> PySlice(first_part, 0, 2) \o second_part
                            \o PySliceFrom(first_part, 2)]
    ELSE IF j = "AOM"
    THEN [kind |-> "ok", headers |-> aom_get_headers(f, 1)]
    ELSE IF \E k \in 1..Len(f) : f[k].key = HEADER_KEY
         THEN [kind |-> "ok", headers |-> FontsGet(f, HEADER_KEY)]
         ELSE NoHeaders

find_earliest_uppercase_index(s) ==
    IF \E i \in 1..Len(s) : s[i] \in UpperCase
    THEN Min({i \in 1..Len(s) : s[i] \in UpperCase}) - 1
    ELSE Len(s)

\* starting_text_nest.get(heading, "")
NestGet(nest, heading) ==
    IF \E k \in 1..Len(nest) : nest[k].heading = heading
    THEN nest[CHOOSE k \in 1..Len(nest) : nest[k].heading = heading].text
    ELSE <<>>

NestHas(nest, heading) == \E k \in 1..Len(nest) : nest[k].heading = heading

\* starting_text_nest[heading] = text
NestSet(nest, heading, text) ==
    IF NestHas(nest, heading)
    THEN [k \in 1..Len(nest) |->
            IF nest[k].heading = heading
            THEN [heading |-> heading, text |-> text] ELSE nest[k]]
    ELSE Append(nest, [heading |-> heading, text |-> text])

\* starting_text_nest[heading] = starting_text_nest.get(heading, "") + " " + text
NestAdd(nest, heading, text) ==
    NestSet(nest, heading, NestGet(nest, heading) \o Chars(" ") \o text)

NestRaised == [kind |-> "raised", nest |-> <<>>]

\* The loop of get_text_nest of asq.py from run i on.
RECURSIVE AsqNest(_, _, _, _, _)
AsqNest(s, i, headers, nest, cur_header) ==
    IF i > Len(s) THEN [kind |-> "ok", nest |-> nest]
    ELSE IF s[i] \in Range(headers)
    THEN AsqNest(s, i + 1, headers, NestSet(nest, s[i], <<>>), s[i])
    ELSE IF s_startswith(cur_header, Chars("Keyword"))
    THEN LET earliest_idx == find_earliest_uppercase_index(s[i])
             keyword_part == PySlice(s[i], 0, earliest_idx)
             intro_part == PySliceFrom(s[i], earliest_idx)
             kept == NestAdd(nest, cur_header, keyword_part)
         IN  IF NestHas(kept, Chars("Introduction"))
             THEN AsqNest(s, i + 1, headers,
                          NestSet(kept, Chars("Introduction"),
                                  NestGet(kept, Chars("Introduction"))
                                    \o Chars(" ") \o intro_part),
                          Chars("Introduction"))
             ELSE NestRaised
    ELSE AsqNest(s, i + 1, headers, NestAdd(nest, cur_header, s[i]), cur_header)

\* The loop of get_text_nest of joap.py from run i on.
RECURSIVE JoapNest(_, _, _, _, _)
JoapNest(s, i, headers, nest, cur_header) ==
    IF i > Len(s) THEN [kind |-> "ok", nest |-> nest]
    ELSE IF s[i] \in Range(headers)
    THEN JoapNest(s, i + 1, headers, NestSet(nest, s[i], <<>>), s[i])
    ELSE IF i > 1 /\ s_startswith(s[i - 1], Chars("Keywords"))
    THEN JoapNest(s, i + 1, headers, NestAdd(nest, Chars("Keywords"), s[i]),
                  Chars("Abstract"))
    ELSE JoapNest(s, i + 1, headers, NestAdd(nest, cur_header, s[i]), cur_header)

\* The loop of get_text_nest of aom.py from run i on.
RECURSIVE AomNest(_, _, _, _, _)
AomNest(s, i, headers, nest, cur_header) ==
    IF i > Len(s) THEN [kind |-> "ok", nest |-> nest]
    ELSE IF s[i] \in Range(headers)
    THEN AomNest(s, i + 1, headers, NestSet(nest, s[i], <<>>), s[i])
    ELSE AomNest(s, i + 1, headers, NestAdd(nest, cur_header, s[i]), cur_header)

\* reversed(first_page_fonts.items())
Reversed(f) == [k \in 1..Len(f) |-> f[Len(f) + 1 - k]]

\* get_abstract of aom.py from the h-th candidate size on, items being the
\* reversed index: the first text of the item before the first one of the
\* candidate size (the last item when that one is the first), or the index
\* itself when no item has either size, its keys the (font, size) pairs and
\* its values the lists of texts.
RECURSIVE aom_get_abstract(_, _)
aom_get_abstract(items, h) ==
    IF h > Len(AOM_HEADER_SIZE)
    THEN [k \in 1..Len(items) |->
            [heading |-> <<"key", items[k].key[1], items[k].key[2]>>,
             text |-> items[k].val]]
    ELSE LET idx == FirstOfSize(items, AOM_HEADER_SIZE[h])
         IN  IF idx # 0
             THEN <<[heading |-> Chars("Abstract"),
                     text |-> items[IF idx = 1 THEN Len(items)
                                    ELSE idx - 1].val[1]]>>
             ELSE aom_get_abstract(items, h + 1)

get_abstract(first_page_fonts) == aom_get_abstract(Reversed(first_page_fonts), 1)

\* The mapping get_sections hands to get_text_nest: {} in asq.py and joap.py,
\* get_abstract(first_page_fonts) in aom.py, where the index of the first page
\* is the index of the document, a document of the model having one page.
starting_text_nest(j, f) == IF j = "AOM" THEN get_abstract(f) ELSE <<>>

\* get_text_nest(seqs, starting_text_nest, pdf_headers): asq.py walks
\* seqs[1:], joap.py and aom.py seqs.
get_text_nest(j, s, starting, headers) ==
    IF j = "ASQ"
    THEN AsqNest(s, 2, headers, starting, Chars("Other"))
    ELSE IF j = "AOM"
    THEN AomNest(s, 1, headers, starting, Chars("Intro"))
    ELSE JoapNest(s, 1, headers, starting, Chars("Other"))

\* get_sections after the fragments are read: the index is sorted and the
\* headers are looked up; an exception of get_headers leaves the call raised.
GetHeaders ==
    /\ fstatus = "reading"
    /\ frun = 2 => nfragments = Len(doc)
    /\ fonts' = SortedFonts(fonts)
    /\ LET h == get_headers(fjournal, SortedFonts(fonts))
       IN  IF h.kind = "raised"
           THEN /\ fstatus' = "raised"
                /\ pdf_headers' = <<>>
           ELSE /\ fstatus' = "headers"
                /\ pdf_headers' = h.headers
    /\ UNCHANGED <<fjournal, nfragments, seqs, fprev, text_nest, doc, frun,
                   first_seqs, first_fonts>>
    /\ UNCHANGED notFlat

\* get_sections builds the mapping and returns it, or raises what
\* get_text_nest raised.
GetTextNest ==
    /\ fstatus = "headers"
    /\ LET r == get_text_nest(fjournal, seqs,
                              starting_text_nest(fjournal, fonts), pdf_headers)
       IN  IF r.kind = "raised"
           THEN /\ fstatus' = "raised"
                /\ text_nest' = <<>>
           ELSE /\ fstatus' = "returned"
                /\ text_nest' = r.nest
    /\ UNCHANGED <<fjournal, nfragments, seqs, fonts, fprev, pdf_headers, doc,
                   frun, first_seqs, first_fonts>>
    /\ UNCHANGED notFlat

\* get_sections is called again on the same document: the tokenizer starts
\* from its initial locals.
FlatAgain ==
    /\ fstatus \in {"returned", "raised"}
    /\ frun = 1
    /\ frun' = 2
    /\ first_seqs' = seqs
    /\ first_fonts' = fonts
    /\ seqs' = StartState(seqs, fonts).seqs
    /\ fonts' = StartState(seqs, fonts).fonts
    /\ fprev' = StartState(seqs, fonts).fprev
    /\ nfragments' = 0
    /\ pdf_headers' = <<>>
    /\ text_nest' = <<>>
    /\ fstatus' = "reading"
    /\ UNCHANGED <<fjournal, doc>>
    /\ UNCHANGED notFlat

ReadSame == \E fr \in Fragments : FragmentSame(fr[1], fr[2], fr[3])

ReadNew == \E fr \in Fragments : FragmentNew(fr[1], fr[2], fr[3])

FlatNext == ReadSame \/ ReadNew \/ GetHeaders \/ GetTextNest \/ FlatAgain

\* ---------------------------------------------------- post-processing pass

\* The bound on the number of sections handed to preprocess_sections.
MaxPostSections == 4

\* len(section.content) > 225
OversizedLength == 225

PostJournals == {"OrgSci", "AnnRev", "Personnel"}

\* s repeated n times
RECURSIVE Rep(_, _)
Rep(s, n) == IF n = 0 THEN "" ELSE s \o Rep(s, n - 1)

\* Section(content, size), a text of characters with its children
NewSection(content, size) ==
    [content |-> content, size |-> size, children |-> <<>>]

\* The sections of the model: the headings the passes look for, one of them
\* without its trailing blank and one with a trailing blank, a plain heading,
\* a long paragraph, and a text of 224 characters with and without two
\* trailing blanks.
SectionPool ==
    {NewSection("Abstract. ", 12000), NewSection("Abstract.", 11000),
     NewSection("Keywords", 12000), NewSection("Methods", 12000),
     NewSection("REFERENCES ", 12000),
     NewSection(Rep("Long text ", 25), 10000),
     NewSection(Rep("Edge txt", 28), 10000),
     NewSection(Rep("Edge txt", 28) \o "  ", 10000)}

\* What a section is compared with: a str, another section, or an object of
\* another class.
AsStr(str) == [kind |-> "str", str |-> str]

AsSection(sec) == [kind |-> "section", section |-> sec]

OtherObject == [kind |-> "object"]

\* Mutant of Section_eq: sections of different sizes are different.
Section_eq_Sized(self, other) ==
    IF other.kind = "str"
    THEN Strip(Chars(self.content)) = Chars(other.str)
    ELSE IF other.kind = "section"
    THEN /\ Strip(Chars(self.content)) = Strip(Chars(other.section.content))
         /\ self.size = other.section.size
    ELSE FALSE

\* Section.__eq__(self, other): a str is compared, as it is, with the stripped
\* content; a section by the stripped contents; anything else is not equal.
Section_eq(self, other) ==
    IF other.kind = "str"
    THEN Strip(Chars(self.content)) = Chars(other.str)
    ELSE IF other.kind = "section"
    THEN Strip(Chars(self.content)) = Strip(Chars(other.section.content))
    ELSE FALSE

SectionEq(a, b) == Section_eq(a, AsSection(b))

SectionEqStr(a, str) == Section_eq(a, AsStr(str))

\* list.index(x): the 0-based index of the first element equal to x, -1
\* standing for ValueError.
ListIndex(l, x) ==
    IF \E k \in 1..Len(l) : SectionEq(l[k], x)
    THEN Min({k \in 1..Len(l) : SectionEq(l[k], x)}) - 1
    ELSE -1

\* l without the element at 0-based index i
RemoveAt(l, i) == SubSeq(l, 1, i) \o SubSeq(l, i + 2, Len(l))

\* list.remove(x): the first element equal to x is removed.
ListRemove(l, x) == RemoveAt(l, ListIndex(l, x))

\* section.add_child(child)
AddChild(sec, child) == [sec EXCEPT !.children = Append(@, child)]

\* The loop of preprocess_sections over sections_tmp from 0-based index idx
\* on: an oversized section is removed from sections (the first element equal
\* to it), its content joins txt and the smallest such idx is kept.
RECURSIVE FoldOversized(_, _, _)
FoldOversized(sections_tmp, idx, st) ==
    IF idx >= Len(sections_tmp) THEN st
    ELSE LET section == sections_tmp[idx + 1]
         IN  IF Len(section.content) > OversizedLength
             THEN FoldOversized(sections_tmp, idx + 1,
                    [add_new_section |-> TRUE,
                     earliest_index |-> IF idx < st.earliest_index
                                        THEN idx ELSE st.earliest_index,
                     sections |-> ListRemove(st.sections, section),
                     txt |-> st.txt \o section.content])
             ELSE FoldOversized(sections_tmp, idx + 1, st)

\* preprocess_sections of orgsci.py: the list the call leaves behind, and the
\* list it returns or the fact that it raised.
orgsci_preprocess_sections(l) ==
    LET abstract_index == ListIndex(l, NewSection("Abstract. ", 0))
    IN  IF abstract_index = -1 \/ abstract_index + 1 >= Len(l)
        THEN [kind |-> "raised", sections |-> l, result |-> <<>>]
        ELSE
        LET abstract_text == l[abstract_index + 2]
            popped == RemoveAt(l, abstract_index + 1)
            with_child == [popped EXCEPT ![abstract_index + 1] =
                              AddChild(@, abstract_text)]
            st == FoldOversized(with_child, 0,
                    [add_new_section |-> FALSE, earliest_index |-> 1000,
                     sections |-> with_child, txt |-> ""])
            new_section == AddChild(NewSection("Introduction", 20000),
                                    NewSection(st.txt, 15000))
        IN  IF ~st.add_new_section
            THEN [kind |-> "ok", sections |-> st.sections,
                  result |-> PySliceFrom(st.sections, abstract_index)]
            ELSE IF st.earliest_index >= Len(st.sections)
            THEN [kind |-> "raised", sections |-> st.sections, result |-> <<>>]
            ELSE LET placed == [st.sections EXCEPT
                                   ![st.earliest_index + 1] = new_section]
                 IN  [kind |-> "ok", sections |-> placed,
                      result |-> PySliceFrom(placed, abstract_index)]

\* preprocess_sections of annurev.py
annurev_preprocess_sections(l) ==
    LET first_index == ListIndex(l, NewSection("Keywords", 0))
    IN  IF first_index = -1
        THEN [kind |-> "raised", sections |-> l, result |-> <<>>]
        ELSE [kind |-> "ok", sections |-> l,
              result |-> PySliceFrom(l, first_index)]

\* preprocess_sections of personnel.py: sections[1 : index + 1] for the index
\* of "REFERENCES".
personnel_preprocess_sections(l) ==
    IF \E k \in 1..Len(l) : SectionEqStr(l[k], "REFERENCES")
    THEN LET references_section_index ==
                 Min({k \in 1..Len(l) : SectionEqStr(l[k], "REFERENCES")}) - 1
         IN  [kind |-> "ok", sections |-> l,
              result |-> PySlice(l, 1, references_section_index + 1)]
    ELSE [kind |-> "raised", sections |-> l, result |-> <<>>]

preprocess_sections(j, l) ==
    IF j = "OrgSci" THEN orgsci_preprocess_sections(l)
    ELSE IF j = "AnnRev" THEN annurev_preprocess_sections(l)
    ELSE personnel_preprocess_sections(l)

PostInit ==
    /\ pjournal \in PostJournals
    /\ pinput \in BoundedSeq(SectionPool, MaxPostSections)
    /\ psections = pinput
    /\ presult = <<>>
    /\ pstatus = "called"

PostIdle ==
    /\ pjournal = "OrgSci"
    /\ pinput = <<>>
    /\ psections = <<>>
    /\ presult = <<>>
    /\ pstatus = "idle"

\* preprocess_sections returns the list it built.
PreprocessReturns ==
    /\ pstatus = "called"
    /\ preprocess_sections(pjournal, psections).kind = "ok"
    /\ psections' = preprocess_sections(pjournal, psections).sections
    /\ presult' = preprocess_sections(pjournal, psections).result
    /\ pstatus' = "returned"
    /\ UNCHANGED <<pjournal, pinput>>
    /\ UNCHANGED notPost

\* preprocess_sections raises: a lookup or an index failed.
PreprocessRaises ==
    /\ pstatus = "called"
    /\ preprocess_sections(pjournal, psections).kind = "raised"
    /\ psections' = preprocess_sections(pjournal, psections).sections
    /\ presult' = <<>>
    /\ pstatus' = "raised"
    /\ UNCHANGED <<pjournal, pinput>>
    /\ UNCHANGED notPost

PostNext == PreprocessReturns \/ PreprocessRaises

\* ------------------------------------------------------- Section equality

\* The strings a section is compared with: the headings of the lookups, and
\* headings with blanks around them.
HeadingStrings ==
    {"REFERENCES", "LITERATURE CITED", "Abstract.", "Keywords", "Methods",
     "REFERENCES ", " Keywords", "Abstract. ", ""}

\* The sections that are compared: those of the pool, and sections that
\* differ from them in size or in the blanks around the content.
ComparedSections ==
    SectionPool \cup
    {NewSection("Keywords", 10000), NewSection(" Keywords ", 12000),
     NewSection("REFERENCES", 9000), NewSection("LITERATURE CITED ", 12000),
     NewSection("", 100000), NewSection(" ", 12000)}

EqInit ==
    /\ eq_self \in ComparedSections
    /\ eq_other \in {AsStr(str) : str \in HeadingStrings}
                      \cup {AsSection(sec) : sec \in ComparedSections}
                      \cup {OtherObject}
    /\ eq_result = FALSE
    /\ estatus = "called"

EqIdle ==
    /\ eq_self = NewSection("", 0)
    /\ eq_other = OtherObject
    /\ eq_result = FALSE
    /\ estatus = "idle"

\* self == other
Compare ==
    /\ estatus = "called"
    /\ eq_result' = Section_eq(eq_self, eq_other)
    /\ estatus' = "returned"
    /\ UNCHANGED <<eq_self, eq_other>>
    /\ UNCHANGED notEq

EqNext == Compare

\* ----------------------------------------------------------- upload front end

\* The bound on the number of times the script runs again.
MaxScriptRuns == 4

\* JOURNALS of config.py, the options of the selectbox; the first is
\* DEFAULT_OPTION.
JOURNALS ==
    <<"", "OrgSci", "Annurev-Orgpsych", "Academy of Management Journal (AOM)",
      "Administrative Science Quarterly (ASQ)", "Journal of Management",
      "Journal of Applied Psychology", "Personnel Psychology">>

DEFAULT_OPTION == JOURNALS[1]

\* The files a user may upload; NoFile is the empty uploader.
NoFile == "none"

UploadedFiles == {"a.pdf", "b.pdf"}

\* A key of st.session_state that was never assigned.
Undefined == "undefined"

\* Mutant of set_converted_state: the argument is ignored and the flag is set.
set_converted_state_Set(clicked, state) == "True"

\* set_converted_state(state): the flag is created as False when it is
\* missing, then it is assigned state.
set_converted_state(clicked, state) ==
    LET created == IF clicked = Undefined THEN "False" ELSE clicked
    IN  IF state THEN "True" ELSE "False"

\* One run of the script body for the widget values j and file and the
\* session flag clicked; ok is whether the conversion of the file succeeds.
\* With the default option selected nothing below the selectbox runs; else
\* the flag is read, which raises KeyError when it is missing, and the
\* conversion runs when the flag is set and a file is there.
ScriptRun(j, file, clicked, success, ok) ==
    IF j = DEFAULT_OPTION
    THEN [astatus |-> "ready", shown |-> "none", convert_success |-> success]
    ELSE IF clicked = Undefined
    THEN [astatus |-> "crashed", shown |-> "none", convert_success |-> success]
    ELSE IF clicked = "True" /\ file # NoFile
    THEN [astatus |-> "ready",
          shown |-> IF ok THEN "results" ELSE "error",
          convert_success |-> IF ok THEN "True" ELSE "False"]
    ELSE [astatus |-> "ready", shown |-> "none", convert_success |-> success]

\* The first run of the script in a session: the selectbox shows its first
\* option and the session state is empty.
AppInit ==
    /\ ajournal = JOURNALS[1]
    /\ pdf_file = NoFile
    /\ convert_clicked = Undefined
    /\ convert_success = Undefined
    /\ shown = ScriptRun(JOURNALS[1], NoFile, Undefined, Undefined, TRUE).shown
    /\ astatus = ScriptRun(JOURNALS[1], NoFile, Undefined, Undefined, TRUE).astatus
    /\ clicked_after_change = FALSE
    /\ nscript = 0

AppIdle ==
    /\ ajournal = JOURNALS[1]
    /\ pdf_file = NoFile
    /\ convert_clicked = Undefined
    /\ convert_success = Undefined
    /\ shown = "none"
    /\ astatus = "idle"
    /\ clicked_after_change = FALSE
    /\ nscript = 0

\* The script runs again with the widget values j and file and the flag
\* clicked.
Rerun(j, file, clicked, ok) ==
    /\ nscript < MaxScriptRuns
    /\ nscript' = nscript + 1
    /\ ajournal' = j
    /\ pdf_file' = file
    /\ convert_clicked' = clicked
    /\ shown' = ScriptRun(j, file, clicked, convert_success, ok).shown
    /\ astatus' = ScriptRun(j, file, clicked, convert_success, ok).astatus
    /\ convert_success'
          = ScriptRun(j, file, clicked, convert_success, ok).convert_success
    /\ UNCHANGED notApp

\* The user selects another journal: on_change calls
\* set_converted_state(False) and the script runs again; with the default
\* option the uploader is not drawn and loses its file.
SelectJournal(j, ok) ==
    /\ astatus = "ready"
    /\ j # ajournal
    /\ clicked_after_change' = FALSE
    /\ Rerun(j, IF j = DEFAULT_OPTION THEN NoFile ELSE pdf_file,
             set_converted_state(convert_clicked, FALSE), ok)

\* The user uploads a file, or another one, or removes the file: on_change
\* calls set_converted_state(False) and the script runs again.
ChangeFile(file, ok) ==
    /\ astatus = "ready"
    /\ ajournal # DEFAULT_OPTION
    /\ file # pdf_file
    /\ clicked_after_change' = FALSE
    /\ Rerun(ajournal, file, set_converted_state(convert_clicked, FALSE), ok)

\* The user clicks Convert, which is enabled when a file is there: on_click
\* calls set_converted_state(True) and the script runs again.
ClickConvert(ok) ==
    /\ astatus = "ready"
    /\ ajournal # DEFAULT_OPTION
    /\ pdf_file # NoFile
    /\ clicked_after_change' = TRUE
    /\ Rerun(ajournal, pdf_file, set_converted_state(convert_clicked, TRUE), ok)

\* The user clicks a Download button, shown with the results: the script runs
\* again with the session state as it is.
ClickDownload(ok) ==
    /\ astatus = "ready"
    /\ shown = "results"
    /\ UNCHANGED clicked_after_change
    /\ Rerun(ajournal, pdf_file, convert_clicked, ok)

AppNext ==
    \/ \E j \in Range(JOURNALS), ok \in BOOLEAN : SelectJournal(j, ok)
    \/ \E file \in UploadedFiles \cup {NoFile}, ok \in BOOLEAN :
          ChangeFile(file, ok)
    \/ \E ok \in BOOLEAN : ClickConvert(ok)
    \/ \E ok \in BOOLEAN : ClickDownload(ok)

\* ---------------------------------------------------------- specifications

InitTree == TreeInit /\ SplitIdle /\ MatchIdle /\ FlatIdle /\ PostIdle /\ EqIdle /\ AppIdle

SpecTree == InitTree /\ [][TreeNext]_vars

InitSplit == SplitInit /\ TreeIdle /\ MatchIdle /\ FlatIdle /\ PostIdle /\ EqIdle /\ AppIdle

SpecSplit == InitSplit /\ [][SplitNext]_vars

InitMatch == MatchInit /\ TreeIdle /\ SplitIdle /\ FlatIdle /\ PostIdle /\ EqIdle /\ AppIdle

SpecMatch == InitMatch /\ [][MatchNext]_vars

InitFlat == FlatInit /\ TreeIdle /\ SplitIdle /\ MatchIdle /\ PostIdle /\ EqIdle /\ AppIdle

InitPost == PostInit /\ TreeIdle /\ SplitIdle /\ MatchIdle /\ FlatIdle /\ EqIdle /\ AppIdle

SpecPost == InitPost /\ [][PostNext]_vars

InitEq == EqInit /\ TreeIdle /\ SplitIdle /\ MatchIdle /\ FlatIdle /\ PostIdle /\ AppIdle

SpecEq == InitEq /\ [][EqNext]_vars

InitApp ==
    AppInit /\ TreeIdle /\ SplitIdle /\ MatchIdle /\ FlatIdle /\ PostIdle /\ EqIdle

SpecApp == InitApp /\ [][AppNext]_vars

SpecFlat == InitFlat /\ [][FlatNext]_vars

\* ------------------------------------------------------------------ claims

\* The proper ancestors of section i, nearest first.
RECURSIVE Ancestors(_, _)
Ancestors(ns, i) ==
    IF ns[i].parent = None THEN <<>>
    ELSE <<ns[i].parent>> \o Ancestors(ns, ns[i].parent)

\* The proper ancestors of section i, nearest first, up to and including the
\* nearest one an override keyword created.
RECURSIVE AncestorsToOverride(_, _)
AncestorsToOverride(ns, i) ==
    IF ns[i].parent = None THEN <<>>
    ELSE IF ns[i].parent \in overridden THEN <<ns[i].parent>>
    ELSE <<ns[i].parent>> \o AncestorsToOverride(ns, ns[i].parent)

NonRoot == 2..Len(nodes)

\* C1 (as stated): every non-root section that no override keyword created has
\* no ancestor whose size is smaller than its own, also below an
\* override-created section.
C1_NoSmallerAncestor ==
    \A i \in NonRoot :
        i \notin overridden =>
            \A a \in Range(Ancestors(nodes, i)) : nodes[a].size >= nodes[i].size

\* C1 (amended): every non-root section that no override keyword created has no
\* smaller ancestor among its ancestors up to and including the nearest
\* override-created one (all its ancestors when there is none).
C1_NoSmallerAncestorToOverride ==
    \A i \in NonRoot :
        i \notin overridden =>
            \A a \in Range(AncestorsToOverride(nodes, i)) :
                nodes[a].size >= nodes[i].size

\* C1 witness: a section created by the size rules hangs below an
\* override-created section, and a backtrack-add has attached a section too.
C1_Witness ==
    /\ \E i \in NonRoot :
          /\ i \notin overridden
          /\ Range(Ancestors(nodes, i)) \cap overridden # {}
    /\ \E i \in NonRoot :
          /\ i \notin overridden
          /\ i > 2
          /\ nodes[i].parent # i - 1

\* C2: the entries returned by text_preprocess_for_reference_matching,
\* concatenated in order, are the whitespace-collapsed bibliography text, and
\* no entry is empty.
C2_SpansPartition ==
    sstatus = "returned" =>
        /\ Concat(references_clean) = Collapse(bibtext)
        /\ \A k \in 1..Len(references_clean) : references_clean[k] # <<>>

\* C5: when the entry-start pattern matches nothing, the splitter does not
\* return an empty entry list.
C5_NoMatchIsAnError ==
    (sstatus = "returned" /\ FindEntryStarts(Collapse(bibtext)) = <<>>) =>
        references_clean # <<>>

\* C3: matcher soundness. For every (reference, location) recorded in the
\* index there is a mention extracted from that section whose year string (in
\* OrgSci the literal "(year)") is a substring of the reference text and every
\* one of whose surnames is a substring of the reference text.
C3_MatcherSound ==
    \A k \in 1..Len(references_dictionary) :
        \A l \in Range(references_dictionary[k].section) :
            \E p \in passed :
                /\ p.location = l
                /\ IF mjournal = "OrgSci"
                   THEN Contains(references_dictionary[k].reference,
                                 Chars("(") \o p.year \o Chars(")"))
                   ELSE Contains(references_dictionary[k].reference, p.year)
                /\ \A a \in 1..Len(p.authors) :
                      Contains(references_dictionary[k].reference, p.authors[a])

\* A mention of two surnames and a year is recorded for an entry that holds all
\* three, while another entry of the bibliography holds the year and is not in
\* the index.
C3_Witness ==
    \E k \in 1..Len(references_dictionary), p \in passed :
        /\ p.location \in Range(references_dictionary[k].section)
        /\ Len(p.authors) = 2
        /\ p.year # <<>>
        /\ \A a \in 1..2 : /\ p.authors[a] # <<>>
                           /\ Contains(references_dictionary[k].reference,
                                       p.authors[a])
        /\ Contains(references_dictionary[k].reference, p.year)
        /\ \E r \in Range(references_list) :
              /\ Contains(r, p.year)
              /\ \A m \in 1..Len(references_dictionary) :
                    references_dictionary[m].reference # r

\* C4 (as stated): once "(Lee & Park, 2020)" is extracted from a section, it is
\* decomposed into exactly the pair (["Lee", "Park"], "2020"), and the section
\* is not added to the locations of an entry that lacks one of the surnames.
C4_LeeAndPark ==
    (/\ last.text = Chars("x (Lee & Park, 2020) y")
     /\ get_in_text_citations(mjournal, last.text)
            = <<Chars("(Lee & Park, 2020)")>>)
    => /\ last.results = <<Pair(<<Chars("Lee"), Chars("Park")>>, Chars("2020"))>>
       /\ \A k \in 1..Len(references_dictionary) :
             (\/ ~Contains(references_dictionary[k].reference, Chars("Lee"))
              \/ ~Contains(references_dictionary[k].reference, Chars("Park")))
             => (last.location \in Range(references_dictionary[k].section)
                 => last.location
                        \in Range(DictGet(last.before,
                                          references_dictionary[k].reference)))

\* C7 (as stated): when no section of the document has a bibliography
\* heading, make_references_dataframe raises; it neither goes on to match
\* citations against some other section nor returns a table.
C7_NoReferencesRaises ==
    (/\ mstatus \in {"matching", "raised", "done"}
     /\ \A k \in 1..Len(rows) : rows[k].heading \notin ReferenceHeadings)
    => mstatus = "raised"

\* C8 (as stated): for a document with no text fragment, get_sections reads no
\* run and returns without raising.
C8_EmptyStreamCompletes ==
    (nruns = 0 /\ tstatus \in {"built", "error"}) => tstatus = "built"

\* C9: every location list of the index holds each section heading at most
\* once.
C9_LocationOnce ==
    \A k \in 1..Len(references_dictionary) :
        \A a, b \in 1..Len(references_dictionary[k].section) :
            references_dictionary[k].section[a]
                = references_dictionary[k].section[b] => a = b

\* Two mentions of one section match the same entry: the second finds the
\* heading of the section in the list of the entry.
C9_Witness ==
    \E k \in 1..Len(references_dictionary), x, y \in 1..Len(last.results) :
        /\ x < y
        /\ last.location \in Range(references_dictionary[k].section)
        /\ last.location
              \notin Range(DictGet(last.before,
                                   references_dictionary[k].reference))
        /\ \A r \in {last.results[x], last.results[y]} :
              /\ r.kind = "pair"
              /\ r.parsed
              /\ r.year # <<>>
              /\ Contains(references_dictionary[k].reference, r.year)
              /\ \A a \in 1..Len(r.authors) :
                    /\ r.authors[a] # <<>>
                    /\ Contains(references_dictionary[k].reference,
                                r.authors[a])
        /\ mjournal # "OrgSci"

\* C10 (as stated): a section all of whose mentions fail to decompose adds no
\* location to any entry of the index.
C10_UnparsedDropped ==
    (/\ last.results # <<>>
     /\ \A k \in 1..Len(last.results) : ~last.results[k].parsed)
    => references_dictionary = last.before

\* The keys a candidate header constant of a flat profile selects: the
\* constant itself in asq.py and joap.py, every key of a candidate size in
\* aom.py.
HeaderConstants(j) ==
    IF j = "ASQ" THEN {ABSTRACT_KEY, HEADERS_KEY}
    ELSE IF j = "AOM"
    THEN {<<ff[1], sz>> : ff \in FragmentFonts, sz \in Range(AOM_HEADER_SIZE)}
    ELSE {HEADER_KEY}

\* C6: in the flat builder, when no run's (font, size) key equals a candidate
\* header constant of the profile, get_sections fails with an error: once the
\* headers have been looked up the call is raised, and never goes on to return
\* a mapping with the text under the default bucket.
C6_NoHeaderKeyRaises ==
    (/\ fstatus \in {"headers", "returned", "raised"}
     /\ \A k \in 1..Len(fonts) : fonts[k].key \notin HeaderConstants(fjournal))
    => fstatus = "raised"

\* C11: a malformed mention never aborts the document: process_citations
\* gives a pair or a no-match value for every citation of the section just
\* read, it never raises.
C11_MentionNeverRaises ==
    \A k \in 1..Len(last.results) : last.results[k].kind # "raised"

SecondTokenizationSame ==
    (frun = 2 /\ fstatus \in {"headers", "raised", "returned"})
    => (seqs = first_seqs /\ fonts = first_fonts)

ExampleRuns ==
    /\ nruns = 4
    /\ Len(nodes) = 5
    /\ ~IsOverride(journal, nodes[2].content) /\ nodes[2].size = 12000
    /\ ~IsOverride(journal, nodes[3].content) /\ nodes[3].size = 10000
    /\ IsOverride(journal, nodes[4].content) /\ nodes[4].size = 12000
    /\ ~IsOverride(journal, nodes[5].content) /\ nodes[5].size = 10000

\* C14: for the run sequence (heading, 12), (body, 10), ("References", 12),
\* (entry, 10) get_sections returns two sections, the heading with its body and
\* "References" with the entry.
C14_ExampleTwoSections ==
    (ExampleRuns /\ tstatus \in {"built", "error"})
    => /\ tstatus = "built"
       /\ sections = <<2, 4>>
       /\ nodes[2].children = <<3>>
       /\ nodes[4].children = <<5>>

\* The row of sections_df under a heading.
RowOf(location) == CHOOSE i \in 1..Len(rows) : rows[i].heading = location

IsPrefix(s, t) == Len(s) <= Len(t) /\ SubSeq(t, 1, Len(s)) = s

\* The locations of every reference are in the order in which the loop reads
\* the sections.
LocationsInRowOrder ==
    \A k \in 1..Len(references_dictionary) :
        LET section == references_dictionary[k].section IN
        \A x, y \in 1..Len(section) :
            x < y => RowOf(section[x]) < RowOf(section[y])

\* One iteration of the loop keeps every reference of the index at its place
\* and only adds locations at the end of its list.
LocationsOnlyAppended ==
    (mstatus = "matching" /\ run' = run)
    => \A k \in 1..Len(references_dictionary) :
          /\ k <= Len(references_dictionary')
          /\ references_dictionary'[k].reference
                = references_dictionary[k].reference
          /\ IsPrefix(references_dictionary[k].section,
                      references_dictionary'[k].section)

\* The table returned lists, for every reference, its locations in the order
\* of the index.
OutputKeepsOrder ==
    mstatus = "done"
    => /\ Len(references_df) = Len(references_dictionary)
       /\ \A k \in 1..Len(references_df) :
             /\ references_df[k].reference = references_dictionary[k].reference
             /\ Split(references_df[k].section, Chars(","))
                   = references_dictionary[k].section

\* C15: the citing sections of every reference are in first-seen order (the
\* order in which the sections were read), a recorded location is never removed
\* or moved by later matches, and the comma-joined output keeps that order.
C15_FirstSeenOrder ==
    /\ []LocationsInRowOrder
    /\ [][LocationsOnlyAppended]_vars
    /\ []OutputKeepsOrder

\* The loop has ended with a reference cited in two sections, a second
\* reference in the index.
C15_Witness ==
    /\ mstatus = "done"
    /\ run = 1
    /\ Len(references_dictionary) >= 2
    /\ \E k \in 1..Len(references_df) :
          Len(Split(references_df[k].section, Chars(","))) = 2

\* A mention holds the year of a reference (in OrgSci the literal "(year)")
\* and every one of its surnames.
Cites(j, r, reference) ==
    /\ IF j = "OrgSci"
       THEN Contains(reference, Chars("(") \o r.year \o Chars(")"))
       ELSE Contains(reference, r.year)
    /\ \A a \in 1..Len(r.authors) : Contains(reference, r.authors[a])

\* The section just read held mentions, none raised, and no mention handed to
\* the matcher cites an entry of the bibliography.
NoMentionCites ==
    /\ NotNone(last.results) # <<>>
    /\ \A k \in 1..Len(last.results) : last.results[k].kind # "raised"
    /\ \A k \in 1..Len(last.results) :
          last.results[k].kind = "pair"
          => \A e \in 1..Len(references_list) :
                ~Cites(mjournal, last.results[k], references_list[e])

\* C16: a mention that matches no entry is dropped without an error: the loop
\* goes on with the index as it was before the section; so every reference of
\* the index has a location, and a reference appears in the table returned only
\* if a mention handed to the matcher cites it.
C16_UnmatchedDropped ==
    /\ NoMentionCites
       => (references_dictionary = last.before /\ mstatus # "raised")
    /\ \A k \in 1..Len(references_dictionary) :
          references_dictionary[k].section # <<>>
    /\ mstatus = "done"
       => \A k \in 1..Len(references_df) :
             \E p \in passed :
                Cites(mjournal, p, references_df[k].reference)

\* A section whose mention cites no entry has been read, the index holding a
\* reference from an earlier section and the bibliography an entry not in it.
C16_Witness ==
    /\ NoMentionCites
    /\ last.before # <<>>
    /\ \E e \in 1..Len(references_list) :
          \A k \in 1..Len(references_dictionary) :
             references_dictionary[k].reference # references_list[e]

\* The last child of the second-to-last top-level section (child of the
\* root); None when there is no such section.
SecondToLastTopLastChild(ns) ==
    LET top == ns[main_section].children IN
    IF Len(top) < 2 THEN None
    ELSE IF ns[top[Len(top) - 1]].children = <<>> THEN None
    ELSE Last(ns[top[Len(top) - 1]].children)

\* C17: a run whose trimmed text is an override keyword always creates a new
\* section, a child of the last child of the second-to-last top-level section,
\* whatever its size and the current section; the new section becomes the
\* current section.
C17_OverrideUnderSecondToLast ==
    [][\A text \in TreeTexts, raw \in RawSizes :
          RunOverride(text, raw)
          => /\ tstatus' = "building"
             /\ Len(nodes') = Len(nodes) + 1
             /\ SecondToLastTopLastChild(nodes) # None
             /\ nodes'[Len(nodes')].parent = SecondToLastTopLastChild(nodes)
             /\ curr_section' = Len(nodes')]_vars

\* Section p is the nearest section above curr whose size is greater than
\* size.
NearestLarger(ns, curr, size, p) ==
    /\ p \in Range(Ancestors(ns, curr))
    /\ ns[p].size > size
    /\ \A a \in Range(Ancestors(ns, curr)) \cup {curr} :
          p \in Range(Ancestors(ns, a)) => ns[a].size <= size

\* C18: for every run larger than prev_size, whatever its size, backtrack_add
\* ends with the new section as the last child of the nearest ancestor of the
\* current section that is strictly larger than the run; the root is larger
\* than every run, so the walk never steps past it.
C18_BacktrackAlwaysAttaches ==
    [][\A text \in TreeTexts, raw \in RawSizes :
          RunLarger(text, raw)
          => /\ tstatus' = "building"
             /\ Len(nodes') = Len(nodes) + 1
             /\ NearestLarger(nodes, curr_section, CurSize(journal, raw),
                              nodes'[Len(nodes')].parent)
             /\ Last(nodes'[nodes'[Len(nodes')].parent].children) = Len(nodes')
             /\ curr_section' = Len(nodes')]_vars

\* The fragments the tokenizer has read in the current call, and the key of a
\* fragment: the font (the part of its name before "+") and the rounded size.
FragmentsRead == SubSeq(doc, 1, nfragments)

KeyOf(fr) == <<fr[2][1], Round2(fr[3])>>

\* The positions at which a run starts: the first fragment and every fragment
\* whose key is not the key of the fragment before it.
RunStarts(d) ==
    {i \in 1..Len(d) : i = 1 \/ KeyOf(d[i]) # KeyOf(d[i - 1])}

\* The texts of the fragments of the k-th maximal run, space-joined.
MaximalRun(d, k) ==
    LET start == CHOOSE i \in RunStarts(d) :
                    Cardinality({x \in RunStarts(d) : x <= i}) = k
        end == IF \E x \in RunStarts(d) : x > start
               THEN Min({x \in RunStarts(d) : x > start}) - 1
               ELSE Len(d)
    IN  Join([i \in 1..(end - start + 1) |-> d[start + i - 1][1]], Chars(" "))

\* C19: the run sequence consists of the maximal runs of the fragments read: a
\* run starts at the first fragment and wherever the (font, rounded size) key
\* changes, so the number of runs is one plus the number of key changes, every
\* run is the space-joined text of its fragments, and space-joining the runs
\* gives the space-joined texts of the fragments in document order.
C19_MaximalRuns ==
    fstatus # "idle"
    => /\ Len(seqs) = Cardinality(RunStarts(FragmentsRead))
       /\ \A k \in 1..Len(seqs) : seqs[k] = MaximalRun(FragmentsRead, k)
       /\ Join(seqs, Chars(" "))
             = Join([i \in 1..nfragments |-> doc[i][1]], Chars(" "))

\* Three fragments have been read into two runs: the key changed once, and a
\* run holds two fragments whose sizes differ before rounding.
C19_Witness ==
    /\ fstatus = "reading"
    /\ frun = 1
    /\ nfragments = 3
    /\ Len(seqs) = 2
    /\ \E i \in 2..3 : /\ KeyOf(doc[i]) = KeyOf(doc[i - 1])
                       /\ doc[i][3] # doc[i - 1][3]

\* What one candidate size of aom.py yields on its own: the texts after the
\* first one under the first key of that size, nothing when no key has it.
CandidateHeaders(f, header) ==
    IF FirstOfSize(f, header) # 0
    THEN PySliceFrom(f[FirstOfSize(f, header)].val, 1)
    ELSE <<>>

\* C20: in the header detection of the size-keyed flat profile the second
\* candidate size is used whenever the first yields no headers: once the
\* headers are looked up, the header list is empty only if neither candidate
\* size yields a header, also when a key of the first size exists and
\* contributes an empty list.
C20_SecondCandidateUsed ==
    (/\ fjournal = "AOM"
     /\ fstatus \in {"headers", "returned"}
     /\ pdf_headers = <<>>)
    => \A h \in 1..Len(AOM_HEADER_SIZE) :
          CandidateHeaders(fonts, AOM_HEADER_SIZE[h]) = <<>>

\* The bucket get_text_nest starts with, before any header is met.
DefaultBucket(j) == IF j = "AOM" THEN Chars("Intro") ELSE Chars("Other")

\* The header in force at run i of s: the text of the last run before i that
\* is a header text, the default bucket when there is none.
HeaderBefore(j, s, headers, i) ==
    IF \E k \in 1..(i - 1) : s[k] \in Range(headers)
    THEN s[CHOOSE k \in 1..(i - 1) :
              /\ s[k] \in Range(headers)
              /\ \A m \in (k + 1)..(i - 1) : s[m] \notin Range(headers)]
    ELSE DefaultBucket(j)

\* C21: in the linear pass of the flat builder (get_text_nest of the size-keyed
\* and of the single-key profile) every run that is not a header text is, once
\* the mapping is returned, contained in the text filed under the most recent
\* header before it (the default bucket before any header), also when the
\* same header text occurs more than once.
C21_RunUnderItsHeader ==
    (fjournal \in {"AOM", "JOAP"} /\ fstatus = "returned")
    => \A i \in 1..Len(seqs) :
          seqs[i] \notin Range(pdf_headers)
          => /\ NestHas(text_nest, HeaderBefore(fjournal, seqs, pdf_headers, i))
             /\ Contains(NestGet(text_nest,
                                 HeaderBefore(fjournal, seqs, pdf_headers, i)),
                         seqs[i])

\* The runs the pass of asq.py splits: a run that is not a header text and
\* comes right after a header run whose text starts with "Keyword" (the pass
\* starts at the second run).
KeywordRuns ==
    {i \in 3..Len(seqs) :
        /\ seqs[i] \notin Range(pdf_headers)
        /\ seqs[i - 1] \in Range(pdf_headers)
        /\ s_startswith(seqs[i - 1], Chars("Keyword"))}

\* C22: in the flat builder a run that follows the keyword header is split at
\* its first uppercase letter, the part before it filed under the keyword
\* header and the part from it on under Introduction, and the pass goes on
\* without error whether or not an Introduction entry exists already.
C22_KeywordRunSplit ==
    (/\ fjournal = "ASQ"
     /\ fstatus \in {"returned", "raised"}
     /\ KeywordRuns # {})
    => /\ fstatus = "returned"
       /\ \A i \in KeywordRuns :
             LET idx == find_earliest_uppercase_index(seqs[i])
             IN  /\ Contains(NestGet(text_nest, seqs[i - 1]),
                             PySlice(seqs[i], 0, idx))
                 /\ Contains(NestGet(text_nest, Chars("Introduction")),
                             PySliceFrom(seqs[i], idx))

\* The 0-based index of the starting section of orgsci.py in l, -1 when there
\* is none.
AbstractIndex(l) == ListIndex(l, NewSection("Abstract. ", 0))

\* l after the section that follows the Abstract heading became its child.
AbstractFolded(l) ==
    [RemoveAt(l, AbstractIndex(l) + 1) EXCEPT
        ![AbstractIndex(l) + 1] = AddChild(@, l[AbstractIndex(l) + 2])]

\* The positions of the oversized sections of l.
Oversized(l) == {k \in 1..Len(l) : Len(l[k].content) > OversizedLength}

\* The contents of the oversized sections of l from position k on, in order.
RECURSIVE OversizedText(_, _)
OversizedText(l, k) ==
    IF k > Len(l) THEN ""
    ELSE IF k \in Oversized(l) THEN l[k].content \o OversizedText(l, k + 1)
    ELSE OversizedText(l, k + 1)

\* l from position k on with its oversized sections refolded: the earliest
\* one gives its place to an Introduction section holding their text, the
\* others are dropped, every other section stays where it is.
RECURSIVE Refolded(_, _)
Refolded(l, k) ==
    IF k > Len(l) THEN <<>>
    ELSE IF k \notin Oversized(l) THEN <<l[k]>> \o Refolded(l, k + 1)
    ELSE IF k = Min(Oversized(l))
    THEN <<AddChild(NewSection("Introduction", 20000),
                    NewSection(OversizedText(l, 1), 15000))>>
           \o Refolded(l, k + 1)
    ELSE Refolded(l, k + 1)

\* The call got a list with an Abstract heading and a section after it, and
\* with oversized sections, all of them after the Abstract heading.
OversizedAfterAbstract ==
    /\ pjournal = "OrgSci"
    /\ pstatus \in {"returned", "raised"}
    /\ AbstractIndex(pinput) # -1
    /\ AbstractIndex(pinput) + 1 < Len(pinput)
    /\ Oversized(AbstractFolded(pinput)) # {}
    /\ \A k \in Oversized(AbstractFolded(pinput)) : k > AbstractIndex(pinput) + 1

\* C23: in the OrgSci post-processing pass, when one or more sections exceed
\* the oversized-fragment threshold, they are removed and one Introduction
\* section holding their concatenated text is inserted at the position of the
\* earliest of them; every other section is retained in its original order.
C23_RefoldKeepsOthers ==
    OversizedAfterAbstract
    => /\ pstatus = "returned"
       /\ presult = PySliceFrom(Refolded(AbstractFolded(pinput), 1),
                                AbstractIndex(pinput))

\* The section preprocess_sections looks for: Section("Abstract. ", 0) in
\* orgsci.py, Section("Keywords", 0) in annurev.py.
StartingSection(j) ==
    IF j = "OrgSci" THEN NewSection("Abstract. ", 0) ELSE NewSection("Keywords", 0)

\* C24: the list preprocess_sections returns begins with the keyword-matched
\* starting section (Abstract in OrgSci, Keywords in AnnRev): whatever came
\* before it is trimmed and the starting section itself is the first element,
\* also when oversized fragments precede it.
C24_StartsWithStartingSection ==
    pstatus = "returned"
    => /\ presult # <<>>
       /\ SectionEq(presult[1], StartingSection(pjournal))

\* The text of what a section is compared with.
OtherText(other) ==
    IF other.kind = "str" THEN Chars(other.str) ELSE Chars(other.section.content)

\* C25 as stated: a section compares equal to another section, or to a heading
\* string, exactly when their whitespace-trimmed texts are equal, whatever the
\* sizes.
C25_TrimmedTextsEqual ==
    (estatus = "returned" /\ eq_other.kind \in {"str", "section"})
    => (eq_result <=> Strip(Chars(eq_self.content)) = Strip(OtherText(eq_other)))

\* C25, amended: a section compares equal to another section exactly when
\* their whitespace-trimmed texts are equal, and to a heading string exactly
\* when its own whitespace-trimmed text is the string as it is given (a string
\* with a blank around it equals no section); the sizes play no part.
C25_TrimmedSelfEqualsOther ==
    (estatus = "returned" /\ eq_other.kind \in {"str", "section"})
    => (eq_result <=>
          IF eq_other.kind = "section"
          THEN Strip(Chars(eq_self.content)) = Strip(OtherText(eq_other))
          ELSE /\ Strip(Chars(eq_self.content)) = Strip(OtherText(eq_other))
               /\ Strip(OtherText(eq_other)) = OtherText(eq_other))

\* Two sections of different sizes and different contents, equal once
\* trimmed, were compared and found equal.
C25_Witness ==
    /\ estatus = "returned"
    /\ eq_other.kind = "section"
    /\ eq_self.size # eq_other.section.size
    /\ eq_self.content # eq_other.section.content
    /\ eq_result

\* The places (p, k) at which section i stands in a children list.
ChildPlaces(ns, i) ==
    {pl \in (1..Len(ns)) \X (1..Len(ns)) :
        /\ pl[2] <= Len(ns[pl[1]].children)
        /\ ns[pl[1]].children[pl[2]] = i}

\* C26: throughout the traversal of the nested builder the sections form one
\* tree owned by the root: after every run every section but the root stands
\* in exactly one children list, that of its parent, the parent pointers lead
\* from every section to the root, the root has no parent, and the root's
\* heading stays empty.
C26_SingleTree ==
    tstatus \in {"building", "built", "error"}
    => /\ \A i \in NonRoot :
             /\ Cardinality(ChildPlaces(nodes, i)) = 1
             /\ \A pl \in ChildPlaces(nodes, i) : nodes[i].parent = pl[1]
             /\ main_section \in Range(Ancestors(nodes, i))
       /\ nodes[main_section].parent = None
       /\ ChildPlaces(nodes, main_section) = {}
       /\ nodes[main_section].content = <<>>

\* The shape of the tree alone, without the root's heading: it holds after
\* every run.
SingleTreeShape ==
    tstatus \in {"building", "built", "error"}
    => /\ \A i \in NonRoot :
             /\ Cardinality(ChildPlaces(nodes, i)) = 1
             /\ \A pl \in ChildPlaces(nodes, i) : nodes[i].parent = pl[1]
             /\ main_section \in Range(Ancestors(nodes, i))
       /\ nodes[main_section].parent = None
       /\ ChildPlaces(nodes, main_section) = {}

\* prev_size is the size of the current section.
PrevSizeIsCurrentSize == prev_size = nodes[curr_section].size

\* A run of smaller size becomes a child of the current section, strictly
\* smaller than it.
SmallerRunStrictChild ==
    \A text \in TreeTexts, raw \in RawSizes :
        RunSmaller(text, raw)
        => /\ Len(nodes') = Len(nodes) + 1
           /\ nodes'[Len(nodes')].parent = curr_section
           /\ nodes'[Len(nodes')].size < nodes[curr_section].size
           /\ nodes'[Len(nodes')].size = CurSize(journal, raw)

\* A run of equal size is appended to a section of exactly that size.
EqualRunSameSize ==
    \A text \in TreeTexts, raw \in RawSizes :
        RunEqual(text, raw)
        => /\ Len(nodes') = Len(nodes)
           /\ curr_section' = curr_section
           /\ nodes'[curr_section].content # nodes[curr_section].content
           /\ nodes[curr_section].size = CurSize(journal, raw)

\* C27: in the nested builders, after every processed run prev_size equals the
\* size of the current section; hence a run of smaller size always becomes a
\* child strictly smaller than its parent, and a run of equal size is always
\* appended to a section of exactly that size.
C27_PrevSizeTracksCurrent ==
    /\ []PrevSizeIsCurrentSize
    /\ [][SmallerRunStrictChild]_vars
    /\ [][EqualRunSameSize]_vars

\* Runs of smaller, equal and larger size have been processed: a section was
\* extended, and a section was attached by backtracking.
C27_Witness ==
    /\ tstatus = "building"
    /\ Len(nodes) >= 4
    /\ nruns > Len(nodes) - 1
    /\ \E i \in NonRoot : i > 2 /\ nodes[i].parent # i - 1 /\ i \notin overridden
    /\ nodes[curr_section].size < MainSize
    /\ prev_size = nodes[curr_section].size

\* The current section is the section created last, it has no children, and
\* print_contents of the root visits the sections in the order of their
\* creation, so the current section comes last; every children list is in
\* the order of creation.
CurrentIsLastLeaf ==
    /\ curr_section = Len(nodes)
    /\ nodes[curr_section].children = <<>>
    /\ Preorder(nodes, main_section) = [k \in 1..Len(nodes) |-> k]
    /\ \A i \in 1..Len(nodes) :
          \A x, y \in 1..Len(nodes[i].children) :
              x < y => nodes[i].children[x] < nodes[i].children[y]

\* A step changes the text of no section but the one created last.
TextOnlyToNewest ==
    \A i \in 1..Len(nodes) :
        nodes'[i].content # nodes[i].content
        => /\ i = Len(nodes)
           /\ Len(nodes') = Len(nodes)
           /\ \E text \in TreeTexts :
                 nodes'[i].content = nodes[i].content \o <<" ">> \o text

\* A run that is processed puts its text at the end of what print_contents of
\* the root gives, after a separator.
RunTextAtTheEnd ==
    (nruns' = nruns + 1 /\ tstatus' = "building")
    => \E text \in TreeTexts,
          sep \in {<<" ">>, <<"\n">>, <<" ", "\n", "\n", " ">>} :
          print_contents(nodes', main_section)
            = print_contents(nodes, main_section) \o sep \o text

\* C28: in the nested builder the current section is after every run a leaf
\* and the last section of the tree in pre-order; so children lists are in
\* document order, text is only ever appended to the section created last, and
\* print_contents of the root gives the run texts in document order, none
\* lost.
C28_CurrentIsLastInPreorder ==
    /\ []CurrentIsLastLeaf
    /\ [][TextOnlyToNewest]_vars
    /\ [][RunTextAtTheEnd]_vars

\* An override keyword has created a section, a section has two children, a
\* section was extended and a later run started a new one.
C28_Witness ==
    /\ tstatus = "building"
    /\ overridden # {}
    /\ \E i \in 1..Len(nodes) : Len(nodes[i].children) >= 2
    /\ \E i \in NonRoot : Len(nodes[i].content) > 2 /\ i < Len(nodes)
    /\ Preorder(nodes, main_section) = [k \in 1..Len(nodes) |-> k]

\* The heading of the row make_references_dataframe took the bibliography
\* from.
BibliographyHeading == rows[ReferencesRow(mjournal, rows)].heading

\* C29: in every journal profile make_references_dataframe never records the
\* heading of the bibliography section as a citing location: the section that
\* supplies the reference entries is not scanned for in-text citations.
C29_BibliographyNotALocation ==
    (mstatus \in {"matching", "done"} /\ ReferencesRow(mjournal, rows) # 0)
    => \A k \in 1..Len(references_dictionary) :
          BibliographyHeading \notin Range(references_dictionary[k].section)

\* A conversion has run and its outcome is shown only when Convert was clicked
\* after the last change of journal or file; the flag says just that.
ShownOnlyAfterClick ==
    /\ shown \in {"results", "error"}
       => (clicked_after_change /\ convert_clicked = "True" /\ pdf_file # NoFile)
    /\ convert_clicked = "True" <=> clicked_after_change

\* The flag is defined whenever the script reads it.
FlagDefinedWhenRead ==
    /\ astatus # "crashed"
    /\ ajournal # DEFAULT_OPTION => convert_clicked # Undefined

\* Every change of journal or file resets the flag, and only the Convert click
\* sets it.
OnlyConvertSets ==
    /\ (ajournal' # ajournal \/ pdf_file' # pdf_file)
       => convert_clicked' = "False"
    /\ (convert_clicked' = "True" /\ convert_clicked # "True")
       => \E ok \in BOOLEAN : ClickConvert(ok)
    /\ \A ok \in BOOLEAN : ClickConvert(ok) => convert_clicked' = "True"

\* C30: in the upload front end a conversion is run and results are shown only
\* if Convert was clicked after the most recent change of the journal or of
\* the file: every such change resets convert_clicked to False, only the
\* Convert click sets it to True, and the flag is defined whenever it is read.
C30_ConvertAfterLastChange ==
    /\ []ShownOnlyAfterClick
    /\ []FlagDefinedWhenRead
    /\ [][OnlyConvertSets]_vars

\* A conversion was shown, then the file was changed under the same journal:
\* nothing is shown although the flag had been set.
C30_Witness ==
    /\ astatus = "ready"
    /\ ajournal # DEFAULT_OPTION
    /\ pdf_file # NoFile
    /\ convert_success = "True"
    /\ convert_clicked = "False"
    /\ shown = "none"
    /\ nscript >= 4

====
